---- MODULE Spec2Model ----
(***************************************************************************)
(* Batched question generation pipeline of the Question_Answer_Generator   *)
(* repository: QuestionManager.generate_questions / _collate_questions /   *)
(* _per_question_execution (module/manager.py), the retry loop and the     *)
(* structural validators of GeneratorAgent (module/generator.py), the      *)
(* TranslatorAgent (module/translator.py) and the PlannerAgent             *)
(* (module/planner.py).                                                    *)
(*                                                                         *)
(* Texts are sequences of tokens (strings).  A Python substring test       *)
(* `kw in text.lower()` is a contiguous-subsequence test on the lowered    *)
(* token sequence; a hyphen is a token of its own, so that the keywords    *)
(* that are substrings of one another in the source ('multiple-statement'  *)
(* in 'multiple-statement-4', '3-stmt' in '3-stmt assertion') are          *)
(* sub-sequences of one another here.                                      *)
(***************************************************************************)
EXTENDS Integers, Sequences, FiniteSets, TLC

(* ------------------------------ bounds --------------------------------- *)

\* largest number of plans the planner returns in a modelled run
MaxPlans == 3

\* chunk size of _collate_questions (manager.py:113 sets 15); scaled down so
\* that a batch within MaxPlans spans more than one chunk
chunk_jump == 2

(* ------------------------------ text helpers --------------------------- *)

\* str.lower() on one token: the tokens of the model that hold upper-case
\* letters, each with its lower-case form
LowerPairs ==
  { <<"Multiple", "multiple">>, <<"MULTIPLE", "multiple">>,
    <<"Statement", "statement">>, <<"STATEMENT", "statement">>,
    <<"Complex", "complex">>, <<"3-Stmt", "3-stmt">>, <<"2-Stmt", "2-stmt">>,
    <<"Std", "std">>, <<"Assertion", "assertion">>, <<"Reason", "reason">>,
    <<"Chronological", "chronological">>, <<"Ordering", "ordering">>,
    <<"Standard", "standard">>, <<"Single", "single">>, <<"Correct", "correct">>,
    <<"How", "how">>, <<"Many", "many">>, <<"Both", "both">>,
    <<"Consider", "consider">>, <<"Arrange", "arrange">>,
    <<"History", "history">>, <<"Geography", "geography">>,
    <<"Polity", "polity">>, <<"Mixed", "mixed">>, <<"Subject:", "subject:">>,
    <<"Statement-I", "statement-i">>, <<"Statement-II", "statement-ii">>,
    <<"Statement-III", "statement-iii">>, <<"Statement-IV", "statement-iv">>,
    <<"I.", "i.">>, <<"II.", "ii.">>, <<"III.", "iii.">>, <<"IV.", "iv.">>,
    <<"Geographical", "geographical">>, <<"Sequencing", "sequencing">>,
    <<"WHICH OF THE STATEMENTS GIVEN ABOVE IS/ARE CORRECT",
      "which of the statements given above is/are correct">>,
    <<"Which of the above statements is/are not correct",
      "which of the above statements is/are not correct">>,
    <<"How many of the above statements are correct",
      "how many of the above statements are correct">>,
    <<"Which of the following is correct in respect of the above",
      "which of the following is correct in respect of the above">>,
    <<"--- REFERENCE MATERIAL", "--- reference material">>,
    <<"--- END REFERENCE MATERIAL ---", "--- end reference material ---">>,
    <<"Which of the statements given above is/are correct",
      "which of the statements given above is/are correct">>,
    <<"How many of the statements given above are correct",
      "how many of the statements given above are correct">>,
    <<"Which one of the following is correct in respect of the above statements",
      "which one of the following is correct in respect of the above statements">> }

LowerMap ==
  [t \in {p[1] : p \in LowerPairs} |-> (CHOOSE p \in LowerPairs : p[1] = t)[2]]

LowerTok(t) == IF t \in DOMAIN LowerMap THEN LowerMap[t] ELSE t

\* str.lower()
Lower(text) == [i \in 1..Len(text) |-> LowerTok(text[i])]

\* `kw in text`
Contains(text, kw) ==
  \E i \in 1..(Len(text) - Len(kw) + 1) : SubSeq(text, i, i + Len(kw) - 1) = kw

\* any(keyword in text for keyword in kws)
ContainsAny(text, kws) == \E kw \in kws : Contains(text, kw)

\* the lines of a stem joined into one token sequence
RECURSIVE Flatten(_)
Flatten(lines) ==
  IF lines = <<>> THEN <<>> ELSE Head(lines) \o Flatten(Tail(lines))

Max2(a, b) == IF a >= b THEN a ELSE b

SetMax(S) == IF S = {} THEN 0 ELSE CHOOSE m \in S : \A x \in S : x <= m


(* ------------------------------ drafts --------------------------------- *)

\* A draft (QuestionLLM, resp.parsed): question is the stem, a sequence of
\* lines, each a sequence of tokens separated by single spaces; options are
\* four token sequences with explicit " " tokens; answer is a letter.
\* resp.parsed may also be None.
NoneVal == [kind |-> "None"]

\* question_obj before the first assignment ('question_obj' not in locals())
Unbound == [kind |-> "unbound"]

Draft(q, o, a) == [kind |-> "draft", question |-> q, options |-> o, answer |-> a]

\* ord(answer) - ord('A'), as a 1-based index
AnswerIndex(a) == CASE a = "A" -> 1 [] a = "B" -> 2 [] a = "C" -> 3 [] a = "D" -> 4

(* ------------------------------ validators ----------------------------- *)

Pass == [valid |-> TRUE, error |-> ""]

Fail(msg) == [valid |-> FALSE, error |-> msg]

Numerals == {"0", "1", "2", "3", "4", "5"}

\* hyphen, en dash (U+2013), em dash (U+2014)
Dashes == {"-", "en-dash", "em-dash"}

Whitespace == {" ", "\n"}

\* \s* : the first index at or after i that holds no whitespace token
RECURSIVE SkipWs(_, _)
SkipWs(text, i) ==
  IF i <= Len(text) /\ text[i] \in Whitespace THEN SkipWs(text, i + 1) ELSE i

\* \d+(\s*[-|en|em]\s*\d+){k-1} anchored at i: index of the last token matched, 0 if
\* there is no match (a numeral is one token: \d+ never spans two tokens)
RECURSIVE MatchSeqAt(_, _, _)
MatchSeqAt(text, i, k) ==
  IF i > Len(text) \/ text[i] \notin Numerals THEN 0
  ELSE IF k = 1 THEN i
  ELSE LET j == SkipWs(text, i + 1) IN
       IF j <= Len(text) /\ text[j] \in Dashes
       THEN MatchSeqAt(text, SkipWs(text, j + 1), k - 1)
       ELSE 0

\* re.findall(r'\d+\s*[-|en|em]\s*\d+\s*[-|en|em]\s*\d+\s*[-|en|em]\s*\d+', text)[0]:
\* the leftmost match, <<>> if there is none
FindSequence(text) ==
  LET starts == {i \in 1..Len(text) : MatchSeqAt(text, i, 4) > 0} IN
  IF starts = {} THEN <<>>
  ELSE LET i == CHOOSE m \in starts : \A x \in starts : m <= x IN
       SubSeq(text, i, MatchSeqAt(text, i, 4))

\* a normalisation that removes the whitespace and keeps every dash as it is
RECURSIVE NormalizeSequence_KeepsDashes(_)
NormalizeSequence_KeepsDashes(s) ==
  IF s = <<>> THEN <<>>
  ELSE IF Head(s) \in Whitespace THEN NormalizeSequence_KeepsDashes(Tail(s))
  ELSE <<Head(s)>> \o NormalizeSequence_KeepsDashes(Tail(s))

\* re.sub(r'\s+', '', s) then re.sub(r'[en|em]', '-', s)
RECURSIVE NormalizeSequence(_)
NormalizeSequence(s) ==
  IF s = <<>> THEN <<>>
  ELSE IF Head(s) \in Whitespace THEN NormalizeSequence(Tail(s))
  ELSE IF Head(s) \in Dashes THEN <<"-">> \o NormalizeSequence(Tail(s))
  ELSE <<Head(s)>> \o NormalizeSequence(Tail(s))

SequencingKeywords ==
  { <<"chronological">>, <<"geographical">>, <<"sequencing">>,
    <<"correct", " ", "chronological", " ", "order">>,
    <<"correct", " ", "sequence">>, <<"north", " ", "to", " ", "south">>,
    <<"east", " ", "to", " ", "west">>, <<"earliest", " ", "first">> }

ForbiddenSequences ==
  { <<"1", "-", "2", "-", "3", "-", "4">>, <<"4", "-", "3", "-", "2", "-", "1">> }

_validate_sequence_randomization(question_obj, blueprint) ==
  IF ~ContainsAny(Lower(blueprint), SequencingKeywords) THEN Pass
  ELSE LET correct_option == question_obj.options[AnswerIndex(question_obj.answer)]
           sequence_pattern == FindSequence(correct_option)
       IN IF sequence_pattern # <<>>
             /\ NormalizeSequence(sequence_pattern) \in ForbiddenSequences
          THEN Fail("Forbidden sequence")
          ELSE Pass

\* a keyword list that also matches the word 'single' of a plain pattern name
AssertionReasonKeywords_WithSingle ==
  { <<"assertion">>, <<"assertion", "-", "reason">>,
    <<"statement", "-", "i">>, <<"statement", "-", "ii">>, <<"single">> }

AssertionReasonKeywords ==
  { <<"assertion">>, <<"assertion", "-", "reason">>,
    <<"statement", "-", "i">>, <<"statement", "-", "ii">> }

ARVocabulary ==
  { <<"both">>, <<"correct">>, <<"incorrect">>, <<"explains">>, <<"explanation">> }

_validate_assertion_reason_format(question_obj, blueprint) ==
  IF ~ContainsAny(Lower(blueprint), AssertionReasonKeywords) THEN Pass
  ELSE IF ~ContainsAny(Lower(question_obj.options[1]), ARVocabulary)
       THEN Fail("A/R Format")
       ELSE Pass

\* (\d+)\. at the start of a line
NumberedLabel ==
  [t \in {"1.", "2.", "3.", "4.", "5."} |->
     CASE t = "1." -> 1 [] t = "2." -> 2 [] t = "3." -> 3 [] t = "4." -> 4 [] t = "5." -> 5]

\* (I{1,3}|IV|V)\. at the start of a line, re.IGNORECASE, through roman_map
RomanLabel ==
  [t \in {"i.", "ii.", "iii.", "iv.", "v."} |->
     CASE t = "i." -> 1 [] t = "ii." -> 2 [] t = "iii." -> 3 [] t = "iv." -> 4 [] t = "v." -> 5]

\* Statement[-\s]*(I{1,3}|IV|\d+), re.IGNORECASE: the group of the first
\* alternative that matches; on 'Statement-IV' that is I{1,3} = 'I'
StatementLabel ==
  [t \in {"statement-i", "statement-ii", "statement-iii", "statement-iv",
          "statement-1", "statement-2", "statement-3", "statement-4"} |->
     CASE t = "statement-i" -> 1 [] t = "statement-ii" -> 2 [] t = "statement-iii" -> 3
       [] t = "statement-iv" -> 1
       [] t = "statement-1" -> 1 [] t = "statement-2" -> 2 [] t = "statement-3" -> 3
       [] t = "statement-4" -> 4]

\* a label at the start of line i that is followed by \s+ (a further token
\* of the line, or a further line)
LeadsLine(question_text, i, labels) ==
  /\ question_text[i] # <<>>
  /\ LowerTok(question_text[i][1]) \in DOMAIN labels
  /\ (Len(question_text[i]) > 1 \/ i < Len(question_text))

_count_statements(question_text) ==
  LET numbered_count ==
        SetMax({NumberedLabel[question_text[i][1]] :
                  i \in {j \in 1..Len(question_text) : LeadsLine(question_text, j, NumberedLabel)}})
      roman_count ==
        SetMax({RomanLabel[LowerTok(question_text[i][1])] :
                  i \in {j \in 1..Len(question_text) : LeadsLine(question_text, j, RomanLabel)}})
      flat == Flatten(question_text)
      statement_count ==
        SetMax({StatementLabel[LowerTok(flat[i])] :
                  i \in {j \in 1..Len(flat) : LowerTok(flat[j]) \in DOMAIN StatementLabel}})
  IN Max2(numbered_count, Max2(roman_count, statement_count))

\* a multi-statement family that accepts the first phrasing only
MultiStatementClosings_FirstOnly ==
  { <<"which of the statements given above is/are correct">> }

MultiStatementClosings ==
  { <<"which of the statements given above is/are correct">>,
    <<"which of the statements given above is/are not correct">>,
    <<"which of the statements given above are incorrect">>,
    <<"which of the above statements is/are correct">>,
    <<"which of the above statements is/are not correct">> }

HowManyClosings ==
  { <<"how many of the statements given above are correct">>,
    <<"how many of the above statements are correct">>,
    <<"how many of the statements given above is/are correct">> }

AssertionReasonClosings ==
  { <<"which one of the following is correct in respect of the above statements">>,
    <<"which of the following is correct in respect of the above">> }

_validate_closing_question(question_obj, blueprint) ==
  LET blueprint_lower == Lower(blueprint)
      question_lower == Lower(Flatten(question_obj.question))
  IN IF Contains(blueprint_lower, <<"multiple", "-", "statement">>)
        /\ ~ContainsAny(question_lower, MultiStatementClosings)
     THEN Fail("Multi-statement question missing closing question")
     ELSE IF Contains(blueprint_lower, <<"how", " ", "many">>)
             /\ ~ContainsAny(question_lower, HowManyClosings)
     THEN Fail("How-Many question missing closing question")
     ELSE IF (Contains(blueprint_lower, <<"assertion">>)
              \/ Contains(blueprint_lower, <<"3-stmt">>)
              \/ Contains(blueprint_lower, <<"2-stmt">>))
             /\ ~ContainsAny(question_lower, AssertionReasonClosings)
     THEN Fail("Assertion-Reason question missing closing question")
     ELSE Pass

PlanDigit ==
  [t \in {"2", "3", "4"} |-> CASE t = "2" -> 2 [] t = "3" -> 3 [] t = "4" -> 4]

\* [-\s]* : the first index at or after i that holds neither '-' nor whitespace
RECURSIVE SkipSep(_, _)
SkipSep(text, i) ==
  IF i <= Len(text) /\ text[i] \in (Whitespace \cup {"-"}) THEN SkipSep(text, i + 1) ELSE i

\* re.search(r'multiple[-\s]*statement[-\s]*(\d+)', text) anchored at i: the
\* number of group 1, 0 if there is no match at i
PatternMatchAt(text, i) ==
  IF text[i] # "multiple" THEN 0
  ELSE LET j == SkipSep(text, i + 1) IN
       IF j > Len(text) \/ text[j] # "statement" THEN 0
       ELSE LET k == SkipSep(text, j + 1) IN
            IF k <= Len(text) /\ text[k] \in DOMAIN PlanDigit THEN PlanDigit[text[k]] ELSE 0

\* the leftmost match's group 1, 0 if the search finds nothing
ExpectedCount(blueprint_lower) ==
  LET starts == {i \in 1..Len(blueprint_lower) : PatternMatchAt(blueprint_lower, i) > 0} IN
  IF starts = {} THEN 0
  ELSE PatternMatchAt(blueprint_lower, CHOOSE m \in starts : \A x \in starts : m <= x)

_validate_statement_completeness(question_obj, blueprint) ==
  LET blueprint_lower == Lower(blueprint)
      expected_count == ExpectedCount(blueprint_lower)
      actual_count == _count_statements(question_obj.question)
  IN IF expected_count > 0 /\ actual_count < expected_count
     THEN Fail("Expected statements missing")
     ELSE IF (Contains(blueprint_lower, <<"3-stmt", " ", "assertion">>)
              \/ Contains(blueprint_lower, <<"complex", " ", "3-stmt">>))
             /\ actual_count < 3
     THEN Fail("Expected 3 statements for Complex Assertion-Reason")
     ELSE Pass


(* ------------------------------ generator ------------------------------ *)

\* the remote call raised (transport error, timeout, malformed response)
RemoteException == [kind |-> "exception"]

\* an exception that leaves generate_question
Raised == [kind |-> "raised"]

is_critical_pattern(blueprint) ==
  LET blueprint_lower == Lower(blueprint) IN
  \/ Contains(blueprint_lower, <<"multiple", "-", "statement", "-", "4">>)
  \/ Contains(blueprint_lower, <<"complex", " ", "3-stmt">>)
  \/ Contains(blueprint_lower, <<"3-stmt", " ", "assertion">>)

\* a retry budget that ignores the pattern
max_retries_Always5(blueprint) == 5

max_retries(blueprint) == IF is_critical_pattern(blueprint) THEN 5 ELSE 3

\* the four checks in the order generate_question runs them: some check of
\* the attempt reports a failure
FailsValidation(question_obj, blueprint) ==
  \/ ~_validate_sequence_randomization(question_obj, blueprint).valid
  \/ ~_validate_assertion_reason_format(question_obj, blueprint).valid
  \/ ~_validate_statement_completeness(question_obj, blueprint).valid
  \/ ~_validate_closing_question(question_obj, blueprint).valid

\* the checks in the order of generator.py:292-326
CheckOrder ==
  <<"sequence_randomization", "assertion_reason_format",
    "statement_completeness", "closing_question">>

CheckResult(check, question_obj, blueprint) ==
  CASE check = "sequence_randomization" ->
         _validate_sequence_randomization(question_obj, blueprint)
    [] check = "assertion_reason_format" ->
         _validate_assertion_reason_format(question_obj, blueprint)
    [] check = "statement_completeness" ->
         _validate_statement_completeness(question_obj, blueprint)
    [] check = "closing_question" ->
         _validate_closing_question(question_obj, blueprint)

\* generator.py:292-326 from check i on: the checks iteration `attempt` calls
\* on the draft. A failing check ends the iteration (`continue`) only when
\* attempt < max_retries - 1; otherwise the next check is called
RECURSIVE ChecksFrom(_, _, _, _)
ChecksFrom(blueprint, attempt, question_obj, i) ==
  IF i > Len(CheckOrder) THEN <<>>
  ELSE IF ~CheckResult(CheckOrder[i], question_obj, blueprint).valid
          /\ attempt < max_retries(blueprint) - 1
       THEN <<CheckOrder[i]>>
       ELSE <<CheckOrder[i]>> \o ChecksFrom(blueprint, attempt, question_obj, i + 1)

ChecksEvaluated(blueprint, attempt, question_obj) ==
  ChecksFrom(blueprint, attempt, question_obj, 1)

\* the code after the retry loop (generator.py:339-357)
AfterLoop(blueprint, question_obj) ==
  IF is_critical_pattern(blueprint) /\ question_obj # Unbound
  THEN IF question_obj = NoneVal THEN Raised
       ELSE IF ~_validate_statement_completeness(question_obj, blueprint).valid
               \/ ~_validate_closing_question(question_obj, blueprint).valid
            THEN NoneVal
            ELSE question_obj
  ELSE IF question_obj # Unbound THEN question_obj ELSE NoneVal

\* a loop that gives up with None when the last attempt fails validation
generate_question_NoneOnExhaustion(blueprint, attempt, question_obj, resp) ==
  LET bound == IF resp = RemoteException THEN question_obj ELSE resp
      raises == resp = RemoteException \/ resp = NoneVal
      fails == ~raises /\ FailsValidation(resp, blueprint)
  IN IF attempt < max_retries(blueprint) - 1 /\ (raises \/ fails)
     THEN [returned |-> FALSE, attempt |-> attempt + 1,
           question_obj |-> bound, value |-> NoneVal]
     ELSE [returned |-> TRUE, attempt |-> attempt, question_obj |-> bound,
           value |-> IF raises \/ fails THEN NoneVal ELSE bound]

\* a loop that gives up with None at the first remote call that raises
generate_question_StopsAtFirstException(blueprint, attempt, question_obj, resp) ==
  LET bound == IF resp = RemoteException THEN question_obj ELSE resp
      raises == resp = RemoteException \/ resp = NoneVal
      fails == ~raises /\ FailsValidation(resp, blueprint)
  IN IF attempt < max_retries(blueprint) - 1 /\ fails
     THEN [returned |-> FALSE, attempt |-> attempt + 1,
           question_obj |-> bound, value |-> NoneVal]
     ELSE [returned |-> TRUE, attempt |-> attempt, question_obj |-> bound,
           value |-> IF raises THEN NoneVal ELSE bound]

\* a loop that spends every attempt but the last whatever the checks say
generate_question_RetriesAfterPass(blueprint, attempt, question_obj, resp) ==
  LET bound == IF resp = RemoteException THEN question_obj ELSE resp
      raises == resp = RemoteException \/ resp = NoneVal
  IN IF attempt < max_retries(blueprint) - 1
     THEN [returned |-> FALSE, attempt |-> attempt + 1,
           question_obj |-> bound, value |-> NoneVal]
     ELSE [returned |-> TRUE, attempt |-> attempt, question_obj |-> bound,
           value |-> IF raises THEN NoneVal ELSE bound]

\* One pass through the loop body of generate_question, from the point where
\* the remote call of iteration `attempt` answers with resp (an exception, a
\* parsed draft or a parsed None), up to the next remote call or the return.
\* The validators dereference question_obj, so a parsed None raises
\* AttributeError inside the try block (at the latest at generator.py:116).
\* A failed check only restarts the loop when attempt < max_retries - 1; on the
\* last iteration control falls through every check to `return question_obj`.
generate_question(blueprint, attempt, question_obj, resp) ==
  LET bound == IF resp = RemoteException THEN question_obj ELSE resp
      raises == resp = RemoteException \/ resp = NoneVal
      fails == ~raises /\ FailsValidation(resp, blueprint)
      retry == attempt < max_retries(blueprint) - 1 /\ (raises \/ fails)
  IN IF retry
     THEN IF attempt + 1 < max_retries(blueprint)
          THEN [returned |-> FALSE, attempt |-> attempt + 1,
                question_obj |-> bound, value |-> NoneVal]
          ELSE [returned |-> TRUE, attempt |-> attempt,
                question_obj |-> bound, value |-> AfterLoop(blueprint, bound)]
     ELSE [returned |-> TRUE, attempt |-> attempt, question_obj |-> bound,
           value |-> IF raises THEN NoneVal ELSE bound]


(* ------------------------------ inputs --------------------------------- *)

\* plans (blueprints) the planner may return: the pattern labels of
\* module/main.py:343-358, as token sequences with explicit separators
PlanMS4 == <<"Multiple", "-", "Statement", "-", "4", " ", "(", "Correct", ")">>

PlanMS4Upper == <<"MULTIPLE", "-", "STATEMENT", "-", "4">>

PlanMS3 == <<"Multiple", "-", "Statement", "-", "3", " ", "(", "Correct", ")">>

PlanAR3 == <<"Complex", " ", "3-Stmt", " ", "Assertion", "-", "Reason">>

PlanAR2 == <<"Std", " ", "2-Stmt", " ", "Assertion", "-", "Reason">>

PlanChrono == <<"Chronological", " ", "Ordering">>

PlanStd == <<"Standard", " ", "Single", "-", "Correct">>

PlanHowMany == <<"How", " ", "Many", " ", "-", " ", "Statement">>

PlanTexts ==
  {PlanMS4, PlanMS4Upper, PlanMS3, PlanAR3, PlanAR2, PlanChrono, PlanStd, PlanHowMany}

\* the plans of the batch runs
BatchPlanTexts == {PlanMS3, PlanStd}

\* stems: n numbered statements, then the closing line
NumberedLines(n) == [i \in 1..n |-> << <<"1.", "2.", "3.", "4.">>[i], "x" >>]

StemMS(n, closing) == << <<"Consider">> >> \o NumberedLines(n) \o closing

MSClose == << <<"Which of the statements given above is/are correct", "?">> >>

HMClose == << <<"How many of the statements given above are correct", "?">> >>

ARClose ==
  << <<"Which one of the following is correct in respect of the above statements", "?">> >>

StemAR(n) ==
  [i \in 1..n |-> << <<"Statement-I", "Statement-II", "Statement-III">>[i], ":", "x" >>]
    \o ARClose

OptPlain == << <<"x">>, <<"y">>, <<"z">>, <<"w">> >>

OptAR ==
  << <<"Both", " ", "are", " ", "correct">>, <<"y">>, <<"z">>, <<"w">> >>

OptSeq ==
  << <<"1", "-", "2", "-", "3", "-", "4">>,
     <<"2", " ", "en-dash", " ", "3", " ", "en-dash", " ", "1", " ", "en-dash", " ", "4">>,
     <<"4", " ", "em-dash", " ", "3", " ", "em-dash", " ", "2", " ", "em-dash", " ", "1">>,
     <<"3", "-", "1", "-", "4", "-", "2">> >>

DraftMS4 == Draft(StemMS(4, MSClose), OptPlain, "B")

DraftMS3 == Draft(StemMS(3, MSClose), OptPlain, "C")

DraftMS4NoClose == Draft(StemMS(4, <<>>), OptPlain, "A")

DraftHM3 == Draft(StemMS(3, HMClose), OptPlain, "D")

DraftAR3 == Draft(StemAR(3), OptAR, "A")

DraftAR2 == Draft(StemAR(2), OptAR, "B")

DraftSeqAsc == Draft(<< <<"Arrange">> >>, OptSeq, "A")

DraftSeqDesc == Draft(<< <<"Arrange">> >>, OptSeq, "C")

DraftSeqMixed == Draft(<< <<"Arrange">> >>, OptSeq, "B")

DraftPlain == Draft(<< <<"x">> >>, OptPlain, "D")

Drafts ==
  {DraftMS4, DraftMS3, DraftMS4NoClose, DraftHM3, DraftAR3, DraftAR2,
   DraftSeqAsc, DraftSeqDesc, DraftSeqMixed, DraftPlain}

\* the drafts of the batch runs
BatchDrafts == {DraftMS3, DraftPlain}

\* start_question_number
StartNumbers == {1, 7}

\* research_context_text when the researcher found sources
ResearchTexts == { <<"facts">> }


(* ------------------------------ manager helpers ------------------------ *)

\* text.split(sep)[0]: the text before the first occurrence of sep
SplitFirst(text, sep) ==
  LET at == {i \in 1..(Len(text) - Len(sep) + 1) : SubSeq(text, i, i + Len(sep) - 1) = sep} IN
  IF at = {} THEN text
  ELSE SubSeq(text, 1, (CHOOSE m \in at : \A x \in at : m <= x) - 1)

RECURSIVE StripLeft(_)
StripLeft(text) ==
  IF text # <<>> /\ Head(text) \in Whitespace THEN StripLeft(Tail(text)) ELSE text

RECURSIVE StripRight(_)
StripRight(text) ==
  IF text # <<>> /\ text[Len(text)] \in Whitespace
  THEN StripRight(SubSeq(text, 1, Len(text) - 1))
  ELSE text

\* manager.py:61
SubjectOf(plan_text, subject) ==
  IF Contains(plan_text, <<"Subject:">>)
  THEN LET last == SetMax({i \in 1..Len(plan_text) : plan_text[i] = "Subject:"})
           rest == SubSeq(plan_text, last + 1, Len(plan_text))
       IN SplitFirst(StripRight(StripLeft(rest)), <<"\n">>)
  ELSE subject

\* a strip that cuts at the marker itself and leaves the blank line before it
clean_blueprint_CutsAtMarker(plan_text) ==
  SplitFirst(plan_text, <<"--- REFERENCE MATERIAL">>)

\* manager.py:68
clean_blueprint(plan_text) ==
  IF Contains(plan_text, <<"--- REFERENCE MATERIAL">>)
  THEN SplitFirst(plan_text, <<"\n", "\n", "--- REFERENCE MATERIAL">>)
  ELSE plan_text

\* manager.py:265-270
enriched_plan(plan, research_context_text) ==
  plan \o <<"\n", "\n", "--- REFERENCE MATERIAL",
            " (from web research, use these facts) ---", "\n">>
       \o research_context_text
       \o <<"\n", "--- END REFERENCE MATERIAL ---">>

\* the translator's rendering of an English text (the remote model's output
\* is opaque; only its presence matters to the pipeline)
Hindi(text) == <<"hi", text>>

\* Question(...) of manager.py:81-101; the fields set to None there (topic,
\* subtopic, month, year, test_type, pattern, content_type) and the random
\* db_uuid are left out
Question(q_num, que, que_hindi, blueprint, subject) ==
  [kind |-> "Question", id |-> q_num, question_number |-> q_num,
   question_english |-> que.question, options_english |-> que.options,
   question_hindi |-> que_hindi.question, options_hindi |-> que_hindi.options,
   answer |-> que.answer, question_blueprint |-> blueprint,
   subject |-> subject, is_selected |-> FALSE]

\* list.sort(key=lambda x: x.question_number): a stable insertion sort
RECURSIVE InsertByNumber(_, _)
InsertByNumber(sorted, q) ==
  IF sorted = <<>> THEN <<q>>
  ELSE IF sorted[Len(sorted)].question_number <= q.question_number
       THEN Append(sorted, q)
       ELSE Append(InsertByNumber(SubSeq(sorted, 1, Len(sorted) - 1), q),
                   sorted[Len(sorted)])

\* a sort that puts the highest number first
SortByNumber_Descending(data) ==
  LET RECURSIVE Asc(_)
      Asc(d) == IF d = <<>> THEN <<>>
                ELSE InsertByNumber(Asc(SubSeq(d, 1, Len(d) - 1)), d[Len(d)])
      sorted == Asc(data)
  IN [i \in 1..Len(sorted) |-> sorted[Len(sorted) + 1 - i]]

RECURSIVE SortByNumber(_)
SortByNumber(data) ==
  IF data = <<>> THEN <<>>
  ELSE InsertByNumber(SortByNumber(SubSeq(data, 1, Len(data) - 1)), data[Len(data)])

\* a filter that stops at the first dropped result
RECURSIVE FilterNone_StopsAtNone(_)
FilterNone_StopsAtNone(data) ==
  IF data = <<>> \/ Head(data) = NoneVal THEN <<>>
  ELSE <<Head(data)>> \o FilterNone_StopsAtNone(Tail(data))

\* [i for i in final_data if i]
RECURSIVE FilterNone(_)
FilterNone(data) ==
  IF data = <<>> THEN <<>>
  ELSE IF Head(data) = NoneVal THEN FilterNone(Tail(data))
       ELSE <<Head(data)>> \o FilterNone(Tail(data))

(* ------------------------------ state ---------------------------------- *)

VARIABLES
  phase,          \* "start", "gather" (awaiting asyncio.gather), "done";
                  \* "generating" / "returned" for a lone generate_question call
  plans,          \* plans_response.questions as passed to _collate_questions
  subject,        \* current_subject
  start_number,   \* start_question_number
  plannerCalls,   \* remote calls made by the planner in this run
  chunk,          \* loop variable of _collate_questions (0-based offset)
  pc,             \* per plan task: "idle", "gen_call", "trans_call", "done"
  attempt,        \* per task: loop variable of generate_question
  question_obj,   \* per task: local question_obj of generate_question
  genCalls,       \* per task: remote calls made by the generate_question call
                  \* in progress
  transCalls,     \* per task: remote calls made by the translator
  lastResp,       \* lone call: the latest answer of the generator's remote call
  valFailures,    \* lone call: attempts so far whose draft failed a check
  excFailures,    \* lone call: attempts so far that raised
  plannerAnswer,  \* what the planner's remote call answered ("unset" before)
  que,            \* per task: what generate_question returned (a local of
                  \* _per_question_execution, gone when the task returns)
  que_hindi,      \* per task: what translate_question returned, kept after
                  \* the task's return as the record of the translation
  out,            \* per task: what _per_question_execution returned
  final_data,     \* results collected from the chunks gathered so far
  response        \* the TestPaper returned by the run

\* the operations outside the batch pipeline, each with the locals of its one
\* call in a record
VARIABLES
  dist,           \* a call of get_distribution (main.py:403)
  expansion,      \* a call of auto_distribute_empty_fields (main.py:320)
  review,         \* a question under review and its regeneration (main.py:268)
  archive,        \* the question table and a session saving to it
                  \* (archivist.py:90)
  verdict         \* a structural validator applied to a draft, or a plan handed to the generator

pipelineVars ==
  <<phase, plans, subject, start_number, plannerCalls, chunk, pc, attempt,
    question_obj, genCalls, transCalls, lastResp, valFailures, excFailures,
    plannerAnswer, que, que_hindi, out, final_data, response>>

standaloneVars == <<dist, expansion, review, archive, verdict>>

vars == <<pipelineVars, standaloneVars>>

\* an operation that is not part of the run at hand
Idle == [stage |-> "idle"]

StandaloneIdle ==
  /\ dist = Idle
  /\ expansion = Idle
  /\ review = Idle
  /\ archive = Idle
  /\ verdict = Idle

Tasks == 1..Len(plans)

\* the tasks of the chunk at offset c: modified_plans[c:c+chunk_jump]
ChunkTasks(c) == {t \in Tasks : c < t /\ t <= c + chunk_jump}

\* a gather that is handed no coroutine of the chunk to run
StartTasks_StartsNone(f, c, v) == f

\* a slice one plan too long: modified_plans[c:c+chunk_jump+1]
StartTasks_OneTooMany(f, c, v) ==
  [t \in DOMAIN f |-> IF c < t /\ t <= c + chunk_jump + 1 THEN v ELSE f[t]]

\* asyncio.gather(*tasks): every coroutine of the chunk at offset c runs up to
\* its first suspension, the remote call of attempt 0
StartTasks(f, c, v) ==
  [t \in DOMAIN f |-> IF c < t /\ t <= c + chunk_jump THEN v ELSE f[t]]

NoResponse == [kind |-> "unset"]

\* a returned paper whose questions are renumbered start_number, start_number+1, ...
TestPaper_Renumbered(questions) ==
  [kind |-> "TestPaper",
   questions |-> [i \in 1..Len(questions) |->
                    [questions[i] EXCEPT !.question_number = start_number + i - 1]]]

TestPaper(questions) == [kind |-> "TestPaper", questions |-> questions]

Init ==
  /\ phase = "start"
  /\ plans = <<>>
  /\ subject = <<>>
  /\ start_number = 1
  /\ plannerCalls = 0
  /\ chunk = 0
  /\ pc = <<>>
  /\ attempt = <<>>
  /\ question_obj = <<>>
  /\ genCalls = <<>>
  /\ transCalls = <<>>
  /\ lastResp = Unbound
  /\ valFailures = 0
  /\ excFailures = 0
  /\ plannerAnswer = "unset"
  /\ que = <<>>
  /\ que_hindi = <<>>
  /\ out = <<>>
  /\ final_data = <<>>
  /\ response = NoResponse
  /\ StandaloneIdle


(* ------------------------------ planner -------------------------------- *)

QuestionPlan(questions) == [kind |-> "QuestionPlan", questions |-> questions]

\* what the planner's remote call may answer
PlannerResponses ==
  {RemoteException, NoneVal}
    \cup {QuestionPlan(qs) : qs \in UNION {[1..n -> BatchPlanTexts] : n \in 0..MaxPlans}}

\* a planner that calls the remote model a second time after an exception
_generate_content_Retries(resp) ==
  [calls |-> IF resp = RemoteException THEN 2 ELSE 1,
   parsed |-> IF resp = RemoteException THEN NoneVal ELSE resp]

\* PlannerAgent._generate_content: one remote call, no loop around it; an
\* exception becomes None
_generate_content(resp) ==
  [calls |-> 1, parsed |-> IF resp = RemoteException THEN NoneVal ELSE resp]

\* manager.py:257
planning_failed(plans_response) ==
  plans_response = NoneVal \/ plans_response.questions = <<>>

\* a sequence number that forgets the plan's index
q_num_NoIndex(start, index) == start

\* manager.py:59
q_num(start, index) == start + index

(* ------------------------------ actions -------------------------------- *)

\* QuestionManager.generate_questions, from the call to its first suspension:
\* research (synchronous), the planner's single synchronous call, the early
\* return on a failed planning, the annotation of the plans, and
\* _collate_questions up to the first await of asyncio.gather.  The run is
\* called without source text or PDF, so the context is the research text and
\* the planner method is plan_with_context_and_topic, plan_with_topic or
\* plan_general; each of them ends in the one call of _generate_content.
generate_questions ==
  /\ phase = "start"
  /\ \E topic_input \in {<<>>, <<"History">>},
        research_context_text \in {<<>>} \cup ResearchTexts,
        resp \in PlannerResponses, start_question_number \in StartNumbers :
       LET planned == _generate_content(resp)
           plans_response == planned.parsed
           current_subject ==
             IF topic_input # <<>> THEN topic_input ELSE <<"General">>
           questions ==
             IF research_context_text # <<>>
             THEN [i \in 1..Len(plans_response.questions) |->
                     enriched_plan(plans_response.questions[i], research_context_text)]
             ELSE plans_response.questions
       IN /\ research_context_text # <<>> => topic_input # <<>>
          /\ plannerCalls' = plannerCalls + planned.calls
          /\ plannerAnswer' = resp.kind
          /\ IF planning_failed(plans_response)
             THEN /\ phase' = "done"
                  /\ response' = TestPaper(<<>>)
                  /\ UNCHANGED <<plans, subject, start_number, chunk, pc, attempt,
                                 question_obj, genCalls, transCalls, que,
                                 que_hindi, out, final_data>>
             ELSE LET n == Len(questions)
                      zero == [t \in 1..n |-> 0] IN
                  /\ phase' = "gather"
                  /\ plans' = questions
                  /\ subject' = current_subject
                  /\ start_number' = start_question_number
                  /\ chunk' = 0
                  /\ final_data' = <<>>
                  /\ pc' = StartTasks([t \in 1..n |-> "idle"], 0, "gen_call")
                  /\ genCalls' = StartTasks(zero, 0, 1)
                  /\ attempt' = zero
                  /\ transCalls' = zero
                  /\ question_obj' = [t \in 1..n |-> Unbound]
                  /\ que' = [t \in 1..n |-> Unbound]
                  /\ que_hindi' = [t \in 1..n |-> NoneVal]
                  /\ out' = [t \in 1..n |-> NoneVal]
                  /\ UNCHANGED response
  /\ UNCHANGED <<lastResp, valFailures, excFailures>>
  /\ UNCHANGED standaloneVars

\* the generator's variables of task t after one pass of the loop body
GeneratorUpdate(t, o) ==
  /\ attempt' = [attempt EXCEPT ![t] = o.attempt]
  /\ question_obj' = [question_obj EXCEPT ![t] = o.question_obj]
  /\ genCalls' = [genCalls EXCEPT ![t] = IF o.returned THEN @ ELSE @ + 1]

\* the locals of generate_question are gone once it has returned
GeneratorReturn(t) ==
  /\ attempt' = [attempt EXCEPT ![t] = 0]
  /\ question_obj' = [question_obj EXCEPT ![t] = Unbound]
  /\ genCalls' = [genCalls EXCEPT ![t] = 0]

\* _per_question_execution of task t, resumed by the answer of the generator's
\* remote call: the rest of generate_question up to its next remote call, or
\* its return and then manager.py:66-73 up to the translator's remote call, or
\* the return of the task with None (also when generate_question raised, which
\* manager.py:103-105 catches).
GeneratorResponds(t) ==
  /\ phase = "gather"
  /\ pc[t] = "gen_call"
  /\ \E resp \in {RemoteException} \cup BatchDrafts :
     \E o \in {generate_question(plans[t], attempt[t], question_obj[t], resp)} :
       IF ~o.returned
       THEN GeneratorUpdate(t, o) /\ UNCHANGED <<pc, que, transCalls>>
       ELSE /\ GeneratorReturn(t)
            /\ IF o.value \in {NoneVal, Raised}
               THEN /\ UNCHANGED <<que, transCalls>>
                    /\ pc' = [pc EXCEPT ![t] = "done"]
               ELSE /\ que' = [que EXCEPT ![t] = o.value]
                    /\ transCalls' = [transCalls EXCEPT ![t] = @ + 1]
                    /\ pc' = [pc EXCEPT ![t] = "trans_call"]
  /\ UNCHANGED <<phase, plans, subject, start_number, plannerCalls, chunk, que_hindi,
                 out, final_data, response, lastResp, valFailures, excFailures,
                 plannerAnswer>>
  /\ UNCHANGED standaloneVars

\* QuestionLLMHindi as parsed from the translator's answer
HindiOf(q) == [kind |-> "hindi", question |-> Hindi(q.question), options |-> Hindi(q.options)]

\* a translator that answers an empty rendering when its remote call raises
translate_question_EmptyOnError(resp) ==
  IF resp = RemoteException
  THEN [kind |-> "hindi", question |-> <<>>, options |-> <<>>]
  ELSE resp

\* TranslatorAgent.translate_question: one remote call, an exception becomes None
translate_question(resp) == IF resp = RemoteException THEN NoneVal ELSE resp

\* _per_question_execution of task t, resumed by the answer of the translator's
\* remote call, up to its return; the Question constructor may raise, which the
\* handler of manager.py:103-105 turns into None.
TranslatorResponds(t) ==
  /\ phase = "gather"
  /\ pc[t] = "trans_call"
  /\ \E resp \in {RemoteException, NoneVal, HindiOf(que[t])}, ctor_raises \in BOOLEAN :
       LET hindi == translate_question(resp)
           number == q_num(start_number, t - 1)
       IN /\ ctor_raises => hindi # NoneVal
          /\ que_hindi' = [que_hindi EXCEPT ![t] = hindi]
          /\ out' = [out EXCEPT ![t] =
                       IF hindi # NoneVal /\ ~ctor_raises
                       THEN Question(number, que[t], hindi, clean_blueprint(plans[t]),
                                     SubjectOf(plans[t], subject))
                       ELSE NoneVal]
  /\ pc' = [pc EXCEPT ![t] = "done"]
  /\ que' = [que EXCEPT ![t] = Unbound]
  /\ UNCHANGED <<phase, plans, subject, start_number, plannerCalls, chunk, attempt,
                 question_obj, genCalls, transCalls, final_data, response, lastResp,
                 valFailures, excFailures, plannerAnswer>>
  /\ UNCHANGED standaloneVars

\* _collate_questions resumed by asyncio.gather once every task of the chunk
\* has returned: collect the chunk's results in task order, then either start
\* the next chunk or filter, sort and return the TestPaper.
GatherReturns ==
  /\ phase = "gather"
  /\ \A t \in ChunkTasks(chunk) : pc[t] = "done"
  /\ LET all_data == [i \in 1..Cardinality(ChunkTasks(chunk)) |-> out[chunk + i]]
         collected == final_data \o all_data
     IN IF chunk + chunk_jump < Len(plans)
        THEN /\ chunk' = chunk + chunk_jump
             /\ final_data' = collected
             /\ pc' = StartTasks(pc, chunk + chunk_jump, "gen_call")
             /\ genCalls' = StartTasks(genCalls, chunk + chunk_jump, 1)
             /\ UNCHANGED <<phase, response>>
        ELSE /\ final_data' = SortByNumber(FilterNone(collected))
             /\ response' = TestPaper(SortByNumber(FilterNone(collected)))
             /\ phase' = "done"
             /\ UNCHANGED <<chunk, pc, genCalls>>
  /\ UNCHANGED <<plans, subject, start_number, plannerCalls, attempt, question_obj,
                 transCalls, que, que_hindi, out, lastResp, valFailures, excFailures,
                 plannerAnswer>>
  /\ UNCHANGED standaloneVars

Next ==
  \/ generate_questions
  \/ \E t \in Tasks : GeneratorResponds(t)
  \/ \E t \in Tasks : TranslatorResponds(t)
  \/ GatherReturns

Spec == Init /\ [][Next]_vars

\* Scheduling of a batch run.  The call of generate_questions is made; a
\* remote call of the generator or of the translator returns or raises in the
\* end, which resumes the coroutine awaiting it; and the event loop resumes
\* _collate_questions once every awaitable of asyncio.gather has finished.
BatchFairness ==
  /\ WF_vars(generate_questions)
  /\ \A t \in 1..MaxPlans :
       /\ WF_vars(t \in Tasks /\ GeneratorResponds(t))
       /\ WF_vars(t \in Tasks /\ TranslatorResponds(t))
  /\ WF_vars(GatherReturns)

SpecLive == Init /\ [][Next]_vars /\ BatchFairness

(* ---------------- a lone call of GeneratorAgent.generate_question ------ *)

InitGen ==
  /\ phase = "generating"
  /\ plans \in {<<p>> : p \in PlanTexts}
  /\ subject = <<"General">>
  /\ start_number = 1
  /\ plannerCalls = 0
  /\ chunk = 0
  /\ pc = <<"gen_call">>
  /\ attempt = <<0>>
  /\ question_obj = <<Unbound>>
  /\ genCalls = <<1>>
  /\ transCalls = <<0>>
  /\ lastResp = Unbound
  /\ valFailures = 0
  /\ excFailures = 0
  /\ plannerAnswer = "unset"
  /\ que = <<Unbound>>
  /\ que_hindi = <<NoneVal>>
  /\ out = <<NoneVal>>
  /\ final_data = <<>>
  /\ response = NoResponse
  /\ StandaloneIdle

\* generate_question resumed by the answer of its remote call, up to the next
\* remote call or its return to the caller
GenerateQuestionResumes ==
  /\ phase = "generating"
  /\ pc[1] = "gen_call"
  /\ \E resp \in {RemoteException, NoneVal} \cup Drafts :
     \E o \in {generate_question(plans[1], attempt[1], question_obj[1], resp)} :
       /\ GeneratorUpdate(1, o)
       /\ lastResp' = resp
       /\ valFailures' =
            IF resp.kind = "draft" /\ FailsValidation(resp, plans[1])
            THEN valFailures + 1 ELSE valFailures
       /\ excFailures' = IF resp.kind # "draft" THEN excFailures + 1 ELSE excFailures
       /\ IF o.returned
          THEN /\ que' = [que EXCEPT ![1] = o.value]
               /\ pc' = [pc EXCEPT ![1] = "returned"]
               /\ phase' = "returned"
          ELSE UNCHANGED <<que, pc, phase>>
  /\ UNCHANGED <<plans, subject, start_number, plannerCalls, chunk, transCalls,
                 que_hindi, out, final_data, response, plannerAnswer>>
  /\ UNCHANGED standaloneVars

NextGen == GenerateQuestionResumes

SpecGen == InitGen /\ [][NextGen]_vars


(* ------------- one chunk with the backoff waits made explicit ---------- *)

\* the tasks inside time.sleep (generator.py:298, 307, 316, 325, 335).
\* time.sleep is a blocking call made on the thread that runs the event loop:
\* until it returns no coroutine is resumed
Sleeping == {t \in Tasks : pc[t] = "sleeping"}

\* _collate_questions at the await of asyncio.gather for one chunk: every
\* task of the chunk has issued the remote call of its first attempt
InitBackoff ==
  /\ phase = "gather"
  /\ plans \in [1..chunk_jump -> BatchPlanTexts]
  /\ subject = <<"General">>
  /\ start_number = 1
  /\ plannerCalls = 1
  /\ chunk = 0
  /\ pc = [t \in 1..chunk_jump |-> "gen_call"]
  /\ attempt = [t \in 1..chunk_jump |-> 0]
  /\ question_obj = [t \in 1..chunk_jump |-> Unbound]
  /\ genCalls = [t \in 1..chunk_jump |-> 1]
  /\ transCalls = [t \in 1..chunk_jump |-> 0]
  /\ lastResp = Unbound
  /\ valFailures = 0
  /\ excFailures = 0
  /\ plannerAnswer = "QuestionPlan"
  /\ que = [t \in 1..chunk_jump |-> Unbound]
  /\ que_hindi = [t \in 1..chunk_jump |-> NoneVal]
  /\ out = [t \in 1..chunk_jump |-> NoneVal]
  /\ final_data = <<>>
  /\ response = NoResponse
  /\ StandaloneIdle

\* task t resumed by the answer of the generator's remote call, up to the next
\* point where the thread is given up or held: the time.sleep of a retry, the
\* translator's remote call, or the return of the task
GeneratorRespondsThenSleeps(t) ==
  /\ phase = "gather"
  /\ Sleeping = {}
  /\ pc[t] = "gen_call"
  /\ \E resp \in {RemoteException} \cup BatchDrafts :
     \E o \in {generate_question(plans[t], attempt[t], question_obj[t], resp)} :
       IF ~o.returned
       THEN /\ GeneratorUpdate(t, o)
            /\ pc' = [pc EXCEPT ![t] = "sleeping"]
            /\ UNCHANGED <<que, transCalls>>
       ELSE /\ GeneratorReturn(t)
            /\ IF o.value \in {NoneVal, Raised}
               THEN /\ UNCHANGED <<que, transCalls>>
                    /\ pc' = [pc EXCEPT ![t] = "done"]
               ELSE /\ que' = [que EXCEPT ![t] = o.value]
                    /\ transCalls' = [transCalls EXCEPT ![t] = @ + 1]
                    /\ pc' = [pc EXCEPT ![t] = "trans_call"]
  /\ UNCHANGED <<phase, plans, subject, start_number, plannerCalls, chunk, que_hindi,
                 out, final_data, response, lastResp, valFailures, excFailures,
                 plannerAnswer>>
  /\ UNCHANGED standaloneVars

\* time.sleep returns: `continue`, and the remote call of the next attempt
SleepReturns(t) ==
  /\ phase = "gather"
  /\ pc[t] = "sleeping"
  /\ pc' = [pc EXCEPT ![t] = "gen_call"]
  /\ UNCHANGED <<phase, plans, subject, start_number, plannerCalls, chunk, attempt,
                 question_obj, genCalls, transCalls, que, que_hindi, out, final_data,
                 response, lastResp, valFailures, excFailures, plannerAnswer>>
  /\ UNCHANGED standaloneVars

ResumeTranslator(t) == Sleeping = {} /\ TranslatorResponds(t)

ResumeGather == Sleeping = {} /\ GatherReturns

NextBackoff ==
  \/ \E t \in Tasks : GeneratorRespondsThenSleeps(t)
  \/ \E t \in Tasks : SleepReturns(t)
  \/ \E t \in Tasks : ResumeTranslator(t)
  \/ ResumeGather

SpecBackoff == InitBackoff /\ [][NextBackoff]_vars

(* ------------------- get_distribution (main.py:403) -------------------- *)

\* largest row count of the configuration table (main.py:670)
MaxCount == 100

\* counts beyond the table's range, reachable through a call of
\* auto_distribute_empty_fields with a configuration built elsewhere
LargeCounts == {1999}

TotalCounts == (0..MaxCount) \cup LargeCounts

pattern_types ==
  <<"Standard Single-Correct", "Multiple-Statement-2 (Correct)",
    "Multiple-Statement-3 (Correct)", "Standard Single-Incorrect",
    "Multiple-Statement-2 (Incorrect)", "Multiple-Statement-3 (Incorrect)",
    "Std 2-Stmt Assertion-Reason", "Multiple-Statement-4 (Correct)",
    "Multiple-Statement-4 (Incorrect)", "How Many - Statement",
    "Complex 3-Stmt Assertion-Reason", "Chronological Ordering",
    "Geographical Sequencing">>

cognitive_levels ==
  <<"Comprehension/Conceptual", "Application/Analysis", "Recall/Recognition",
    "Higher Reasoning/Synthesis">>

difficulty_levels == <<"Moderate", "Difficult", "Easy">>

\* list(syllabus.keys())
syllabus_subjects ==
  <<"History", "Geography", "Polity", "Economy", "Environment",
    "Science & Tech", "Current Affairs", "Miscellaneous">>

\* the weight tables, in percent, in the insertion order of the dicts
UPSC_PATTERN_DIST ==
  << <<"How Many - Statement", 30>>,
     <<"Multiple-Statement-3 (Correct)", 10>>,
     <<"Multiple-Statement-4 (Correct)", 4>>,
     <<"Multiple-Statement-3 (Incorrect)", 4>>,
     <<"Multiple-Statement-4 (Incorrect)", 2>>,
     <<"Std 2-Stmt Assertion-Reason", 12>>,
     <<"Complex 3-Stmt Assertion-Reason", 8>>,
     <<"Multiple-Statement-2 (Correct)", 7>>,
     <<"Multiple-Statement-2 (Incorrect)", 3>>,
     <<"How Many Pairs Correct/Incorrect", 6>>,
     <<"How Many Sets/Triplets", 4>>,
     <<"Standard Single-Correct", 10>>,
     <<"Chronological Ordering", 0>>,
     <<"Geographical Sequencing", 0>>,
     <<"Standard Single-Incorrect", 0>> >>

UPSC_COGNITIVE_DIST ==
  << <<"Comprehension/Conceptual", 40>>, <<"Application/Analysis", 30>>,
     <<"Recall/Recognition", 20>>, <<"Higher Reasoning/Synthesis", 10>> >>

UPSC_DIFFICULTY_DIST ==
  << <<"Moderate", 50>>, <<"Difficult", 35>>, <<"Easy", 15>> >>

\* Weights are kept in tenths of a percent, the resolution of round(x, 1).

\* round(b * scale, 1) where the product lies halfway between two tenths: the
\* double nearest to the product decides (7 * 0.85 = 5.95000000000000018,
\* 3 * 0.85 = 2.54999999999999982, 7 * 0.95 = 6.64999999999999947,
\* 3 * 0.95 = 2.84999999999999964)
HalfwayProducts ==
  [p \in {<<7, 85>>, <<3, 85>>, <<7, 95>>, <<3, 95>>} |->
     CASE p = <<7, 85>> -> 60 [] p = <<3, 85>> -> 25
       [] p = <<7, 95>> -> 66 [] p = <<3, 95>> -> 28]

\* a scaling that rounds to whole percents
ScaledWeight_WholePercent(b, s) == 10 * ((b * s + 50) \div 100)

\* round(b * scale_factor, 1) in tenths, for a weight of b percent and a
\* scale factor of s hundredths
ScaledWeight(b, s) ==
  IF (b * s) % 10 = 5 THEN HalfwayProducts[<<b, s>>] ELSE (b * s + 5) \div 10

\* round(num / den) of Python 3: to the nearest integer, a tie to the even one
RoundHalfEven(num, den) ==
  LET q == num \div den
      r == num % den
  IN IF 2 * r > den \/ (2 * r = den /\ q % 2 = 1) THEN q + 1 ELSE q

HasKey(d, key) == \E i \in 1..Len(d) : d[i][1] = key

\* d[key] = w on a dict: the entry keeps its place, a new key is appended
SetWeight(d, key, w) ==
  IF HasKey(d, key)
  THEN [i \in 1..Len(d) |-> IF d[i][1] = key THEN <<key, w>> ELSE d[i]]
  ELSE Append(d, <<key, w>>)

\* main.py:417-442: the table the allocation works on, for the subject_name given
working_dist(upsc_dist, subject_name) ==
  LET base == [i \in 1..Len(upsc_dist) |-> <<upsc_dist[i][1], 10 * upsc_dist[i][2]>>]
      scaled(s, kept) ==
        [i \in 1..Len(upsc_dist) |->
           IF upsc_dist[i][1] \in kept THEN base[i]
           ELSE <<upsc_dist[i][1], ScaledWeight(upsc_dist[i][2], s)>>]
  IN IF subject_name # "" /\ LowerTok(subject_name) = "history"
     THEN SetWeight(scaled(80, {"Chronological Ordering"}), "Chronological Ordering", 200)
     ELSE IF subject_name # "" /\ LowerTok(subject_name) = "geography"
     THEN SetWeight(scaled(85, {"Geographical Sequencing", "Chronological Ordering"}),
                    "Geographical Sequencing", 150)
     ELSE IF HasKey(upsc_dist, "Chronological Ordering")
     THEN SetWeight(scaled(95, {"Chronological Ordering"}), "Chronological Ordering", 50)
     ELSE base

\* items.sort(key=lambda x: x[1], reverse=True): stable, so items of equal
\* weight keep their order
RECURSIVE SortByWeightDesc(_)
SortByWeightDesc(items) ==
  IF items = <<>> THEN <<>>
  ELSE LET sorted == SortByWeightDesc(SubSeq(items, 1, Len(items) - 1))
           it == items[Len(items)]
           before == {i \in 1..Len(sorted) : sorted[i][2] >= it[2]}
           k == IF before = {} THEN 0 ELSE CHOOSE m \in before : \A x \in before : x <= m
       IN SubSeq(sorted, 1, k) \o <<it>> \o SubSeq(sorted, k + 1, Len(sorted))

\* main.py:449-452
PositiveItems(dist_table) ==
  SortByWeightDesc(SelectSeq(dist_table, LAMBDA it : it[2] > 0))

\* main.py:455-460, first pass over items[1..n]: the counts allocated and what
\* remains of total_count
RECURSIVE FirstPass(_, _, _)
FirstPass(total_count, items, n) ==
  IF n = 0 THEN [allocated |-> <<>>, remaining |-> total_count]
  ELSE LET prev == FirstPass(total_count, items, n - 1)
           rounded == RoundHalfEven(total_count * items[n][2], 1000)
           count == IF rounded <= prev.remaining THEN rounded ELSE prev.remaining
       IN [allocated |-> Append(prev.allocated, count),
           remaining |-> prev.remaining - count]

\* main.py:464-472, second pass over items[1..n]: at most one more for each
\* item below int(total_count * percentage / 100) + 1
RECURSIVE SecondPass(_, _, _, _)
SecondPass(total_count, items, first, n) ==
  IF n = 0 THEN first
  ELSE LET prev == SecondPass(total_count, items, first, n - 1)
           theoretical_max == (total_count * items[n][2]) \div 1000 + 1
       IN IF prev.remaining > 0 /\ prev.allocated[n] < theoretical_max
          THEN [allocated |-> [prev.allocated EXCEPT ![n] = @ + 1],
                remaining |-> prev.remaining - 1]
          ELSE prev

\* main.py:444-472: allocated, as the counts of the items in their sorted order
Allocate(total_count, items) ==
  SecondPass(total_count, items, FirstPass(total_count, items, Len(items)), Len(items))

\* [option] * count
Repeat(option, count) == [i \in 1..count |-> option]

\* main.py:475-477
RECURSIVE BuildResult(_, _, _)
BuildResult(items, allocated, n) ==
  IF n = 0 THEN <<>>
  ELSE BuildResult(items, allocated, n - 1) \o Repeat(items[n][1], allocated[n])

Reverse(s) == [i \in 1..Len(s) |-> s[Len(s) + 1 - i]]

Rotate(s) == IF s = <<>> THEN s ELSE Tail(s) \o <<Head(s)>>

\* random.shuffle: the list in one of its orders; three of them here
Shuffles(s) == {s, Reverse(s), Rotate(s)}

\* main.py:486-496 for one order of the options
EvenResult(total_count, shuffled_options) ==
  LET num_options == Len(shuffled_options)
      base_count == total_count \div num_options
      remainder == total_count % num_options
      RECURSIVE upto(_)
      upto(n) == IF n = 0 THEN <<>>
                 ELSE upto(n - 1) \o Repeat(shuffled_options[n],
                                            base_count + (IF n - 1 < remainder THEN 1 ELSE 0))
  IN upto(num_options)

\* get_distribution(total_count, options, upsc_dist, subject): the lists the
\* call can return; upsc_dist = <<>> stands for the default None
get_distribution(total_count, options, upsc_dist, subject_name) ==
  IF upsc_dist # <<>>
  THEN LET items == PositiveItems(working_dist(upsc_dist, subject_name))
       IN {BuildResult(items, Allocate(total_count, items).allocated, Len(items))}
  ELSE UNION {Shuffles(EvenResult(total_count, shuffled_options)) :
                shuffled_options \in Shuffles(options)}

\* the subjects get_distribution is called with (main.py:540, 548, 581); ""
\* stands for None
DistSubjects == {"", "History", "Geography", "Polity", "Mixed"}

DistCalls ==
  [total_count : TotalCounts, options : {pattern_types},
   upsc_dist : {UPSC_PATTERN_DIST}, subject : DistSubjects]
  \cup [total_count : TotalCounts, options : {cognitive_levels},
        upsc_dist : {UPSC_COGNITIVE_DIST}, subject : {""}]
  \cup [total_count : TotalCounts, options : {difficulty_levels},
        upsc_dist : {UPSC_DIFFICULTY_DIST}, subject : {""}]
  \cup [total_count : TotalCounts, options : {syllabus_subjects},
        upsc_dist : {<<>>}, subject : {""}]

PipelineIdle ==
  /\ phase = "idle"
  /\ plans = <<>>
  /\ subject = <<>>
  /\ start_number = 1
  /\ plannerCalls = 0
  /\ chunk = 0
  /\ pc = <<>>
  /\ attempt = <<>>
  /\ question_obj = <<>>
  /\ genCalls = <<>>
  /\ transCalls = <<>>
  /\ lastResp = Unbound
  /\ valFailures = 0
  /\ excFailures = 0
  /\ plannerAnswer = "unset"
  /\ que = <<>>
  /\ que_hindi = <<>>
  /\ out = <<>>
  /\ final_data = <<>>
  /\ response = NoResponse

InitDist ==
  /\ PipelineIdle
  /\ \E call \in DistCalls : dist = [stage |-> "called", call |-> call]
  /\ expansion = Idle
  /\ review = Idle
  /\ archive = Idle
  /\ verdict = Idle

\* the call runs to its return
GetDistributionReturns ==
  /\ dist.stage = "called"
  /\ \E result \in get_distribution(dist.call.total_count, dist.call.options,
                                    dist.call.upsc_dist, dist.call.subject) :
       dist' = [stage |-> "returned", call |-> dist.call,
                working_dist |-> IF dist.call.upsc_dist = <<>> THEN <<>>
                                 ELSE working_dist(dist.call.upsc_dist, dist.call.subject),
                result |-> result]
  /\ UNCHANGED <<pipelineVars, expansion, review, archive, verdict>>

NextDist == GetDistributionReturns

SpecDist == InitDist /\ [][NextDist]_vars

(* --------------- auto_distribute_empty_fields (main.py:320) ------------ *)

\* most rows of a configuration in a modelled call
MaxRows == 2

\* main.py:538: below this count one mixed pattern table serves all subjects
SmallTestLimit == 20

\* topic_str.lower() as its words, for the topics of the modelled rows
TopicWords ==
  [t \in {"History", "Indian geography", "Polity", "Ethics: Integrity"} |->
     CASE t = "History" -> <<"history">>
       [] t = "Indian geography" -> <<"indian", " ", "geography">>
       [] t = "Polity" -> <<"polity">>
       [] t = "Ethics: Integrity" -> <<"ethics", ":", " ", "integrity">>]

\* topic_str.split(':')[0].strip() if ':' in topic_str else topic_str.strip()
TopicPrefix(topic_str) ==
  IF topic_str = "Ethics: Integrity" THEN "Ethics" ELSE topic_str

\* main.py:555-579: the subject a fixed topic stands for; "" stands for None
SubjectOfTopic(topic_str) ==
  IF topic_str = "" THEN ""
  ELSE LET topic_lower == TopicWords[topic_str]
           has(w) == Contains(topic_lower, <<w>>)
       IN CASE has("geography") -> "Geography"
            [] ~has("geography") /\ has("history") -> "History"
            [] ~has("geography") /\ ~has("history") /\ has("polity") -> "Polity"
            [] OTHER -> TopicPrefix(topic_str)

\* a row of the configuration; a field to randomize carries "" (None or ''
\* in the callers, main.py:756-765 and 1284-1292), and a row built without
\* the flags (main.py:163-169) reads them as False
ConfigRow(count, topic, pattern, cognitive, difficulty) ==
  [count |-> count, topic |-> topic, pattern |-> pattern,
   cognitive |-> cognitive, difficulty |-> difficulty,
   _randomize_topic |-> topic = "", _randomize_pattern |-> pattern = "",
   _randomize_cognitive |-> cognitive = "", _randomize_difficulty |-> difficulty = ""]

\* the rows of the modelled configurations
ConfigRows ==
  { ConfigRow(2, "Polity", "How Many - Statement", "Recall/Recognition", "Easy"),
    ConfigRow(0, "History", "Chronological Ordering", "Recall/Recognition", "Easy"),
    ConfigRow(3, "Indian geography", "", "Application/Analysis", "Difficult"),
    ConfigRow(1, "Ethics: Integrity", "", "", "Moderate"),
    ConfigRow(4, "History", "Multiple-Statement-4 (Correct)", "", ""),
    ConfigRow(3, "", "", "", ""),
    ConfigRow(2, "", "Std 2-Stmt Assertion-Reason", "Higher Reasoning/Synthesis", ""),
    ConfigRow(SmallTestLimit, "", "", "", ""),
    \* a row with a topic-less, flag-less shape (main.py:163-169)
    [ConfigRow(1, "History", "Standard Single-Correct", "Recall/Recognition", "Easy")
       EXCEPT !.topic = ""] }

RECURSIVE SeqsUpTo(_, _)
SeqsUpTo(S, n) ==
  IF n = 0 THEN {<<>>}
  ELSE LET shorter == SeqsUpTo(S, n - 1)
       IN shorter \cup {Append(q, x) : q \in {r \in shorter : Len(r) = n - 1}, x \in S}

ConfigLists == SeqsUpTo(ConfigRows, MaxRows) \ {<<>>}

\* Counter(topics).items(): the distinct topics in the order they first occur
RECURSIVE FirstOccurrences(_)
FirstOccurrences(topics) ==
  IF topics = <<>> THEN <<>>
  ELSE LET earlier == FirstOccurrences(SubSeq(topics, 1, Len(topics) - 1))
           t == topics[Len(topics)]
       IN IF \E i \in 1..Len(earlier) : earlier[i] = t THEN earlier ELSE Append(earlier, t)

OccurrencesOf(topics, t) == Cardinality({i \in 1..Len(topics) : topics[i] = t})

\* main.py:543-549: the patterns of every subject, subject after subject
RECURSIVE SubjectPatterns(_, _, _)
SubjectPatterns(topics, names, n) ==
  IF n = 0 THEN <<>>
  ELSE SubjectPatterns(topics, names, n - 1)
       \o (CHOOSE r \in get_distribution(OccurrencesOf(topics, names[n]), pattern_types,
                                         UPSC_PATTERN_DIST, names[n]) : TRUE)

\* a row whose pattern goes through the distribution although it is set
PatternsOf_AlwaysDistributes(item, topics) ==
  get_distribution(item.count, pattern_types, UPSC_PATTERN_DIST, SubjectOfTopic(item.topic))

\* main.py:533-583: the pattern lists a row can get, given its topics
PatternsOf(item, topics) ==
  IF ~item._randomize_pattern THEN {Repeat(item.pattern, item.count)}
  ELSE IF item._randomize_topic
  THEN IF item.count < SmallTestLimit
       THEN get_distribution(item.count, pattern_types, UPSC_PATTERN_DIST, "Mixed")
       ELSE LET names == FirstOccurrences(topics)
            IN Shuffles(SubjectPatterns(topics, names, Len(names)))
  ELSE get_distribution(item.count, pattern_types, UPSC_PATTERN_DIST,
                        SubjectOfTopic(item.topic))

\* x[i] if i < len(x) and x[i] else default
ValueOr(x, i, default) == IF i <= Len(x) /\ x[i] # "" THEN x[i] ELSE default

\* main.py:586-594
QuestionConfigs(total_count, topics, patterns, cognitives, difficulties) ==
  [i \in 1..total_count |->
     [topic |-> ValueOr(topics, i, ""),
      pattern |-> ValueOr(patterns, i, "Standard Single-Correct"),
      cognitive |-> ValueOr(cognitives, i, "Comprehension/Conceptual"),
      difficulty |-> ValueOr(difficulties, i, "Moderate"),
      count |-> 1]]

\* main.py:505-597 for one row: the entries the row can contribute
RowConfigs(item) ==
  IF item.count <= 0 THEN {<<>>}
  ELSE LET total_count == item.count
           topicLists == IF item._randomize_topic
                         THEN get_distribution(total_count, syllabus_subjects, <<>>, "")
                         ELSE {Repeat(item.topic, total_count)}
           cognitives == IF item._randomize_cognitive
                         THEN CHOOSE r \in get_distribution(total_count, cognitive_levels,
                                                            UPSC_COGNITIVE_DIST, "") : TRUE
                         ELSE Repeat(item.cognitive, total_count)
           difficulties == IF item._randomize_difficulty
                           THEN CHOOSE r \in get_distribution(total_count, difficulty_levels,
                                                              UPSC_DIFFICULTY_DIST, "") : TRUE
                           ELSE Repeat(item.difficulty, total_count)
       IN UNION {{QuestionConfigs(total_count, topics, patterns, cognitives, difficulties) :
                    patterns \in PatternsOf(item, topics)} : topics \in topicLists}

\* auto_distribute_empty_fields(config_list): the lists the call can return
RECURSIVE auto_distribute_empty_fields(_)
auto_distribute_empty_fields(config_list) ==
  IF config_list = <<>> THEN {<<>>}
  ELSE {before \o row :
          before \in auto_distribute_empty_fields(SubSeq(config_list, 1, Len(config_list) - 1)),
          row \in RowConfigs(config_list[Len(config_list)])}

InitExpansion ==
  /\ PipelineIdle
  /\ dist = Idle
  /\ \E config_list \in ConfigLists :
       expansion = [stage |-> "called", config_list |-> config_list]
  /\ review = Idle
  /\ archive = Idle
  /\ verdict = Idle

AutoDistributeReturns ==
  /\ expansion.stage = "called"
  /\ \E result \in auto_distribute_empty_fields(expansion.config_list) :
       expansion' = [stage |-> "returned", config_list |-> expansion.config_list,
                     result |-> result]
  /\ UNCHANGED <<pipelineVars, dist, review, archive, verdict>>

NextExpansion == AutoDistributeReturns

SpecExpansion == InitExpansion /\ [][NextExpansion]_vars

(* ------------- review and regeneration (main.py:240-316) -------------- *)

\* generate_question run from its entry to its return, the remote call of
\* attempt k answering resps[k + 1]
RECURSIVE RunGenerateFrom(_, _, _, _)
RunGenerateFrom(blueprint, k, obj, resps) ==
  LET o == generate_question(blueprint, k, obj, resps[k + 1])
  IN IF o.returned THEN o.value
     ELSE RunGenerateFrom(blueprint, o.attempt, o.question_obj, resps)

RunGenerate(blueprint, resps) == RunGenerateFrom(blueprint, 0, Unbound, resps)

\* Question(id=0, question_number=0, ...) of manager.py:308-317
PartialQuestion(new_que, new_hindi, blueprint) ==
  [kind |-> "Question", id |-> 0, question_number |-> 0,
   question_english |-> new_que.question, options_english |-> new_que.options,
   question_hindi |-> new_hindi.question, options_hindi |-> new_hindi.options,
   answer |-> new_que.answer, question_blueprint |-> blueprint, is_selected |-> FALSE]

\* QuestionManager.regenerate_question: the generator's run answered by resps,
\* then one translator call answered by what hindi_of gives for the draft
regenerate_question(blueprint, resps, translation) ==
  LET new_que == RunGenerate(blueprint, resps)
  IN IF new_que.kind # "draft" THEN NoneVal
     ELSE LET new_hindi == translate_question(
                             IF translation = "parsed" THEN HindiOf(new_que)
                             ELSE IF translation = "exception" THEN RemoteException
                             ELSE NoneVal)
          IN IF new_hindi = NoneVal THEN NoneVal
             ELSE PartialQuestion(new_que, new_hindi, blueprint)

\* a question as the review screen holds it: the fields of Question and the
\* review fields
ReviewedQuestion(base, db_uuid, is_selected, is_rejected, user_feedback) ==
  [kind |-> "Question", id |-> base.id, db_uuid |-> db_uuid,
   question_number |-> base.question_number,
   question_english |-> base.question_english,
   options_english |-> base.options_english,
   question_hindi |-> base.question_hindi,
   options_hindi |-> base.options_hindi,
   answer |-> base.answer, question_blueprint |-> base.question_blueprint,
   subject |-> base.subject, is_selected |-> is_selected,
   is_rejected |-> is_rejected, user_feedback |-> user_feedback]

\* a question whose review fields keep their values through a regeneration
UpdateObject_KeepsReview(q, new_q, custom_blueprint) ==
  [q EXCEPT !.question_english = new_q.question_english,
            !.options_english = new_q.options_english,
            !.answer = new_q.answer,
            !.question_hindi = new_q.question_hindi,
            !.options_hindi = new_q.options_hindi,
            !.question_blueprint = IF custom_blueprint # <<>> THEN custom_blueprint ELSE @]

\* main.py:279-292: q after a regeneration that returned new_q; <<>> stands
\* for custom_blueprint = None
UpdateObject(q, new_q, custom_blueprint) ==
  [q EXCEPT !.question_english = new_q.question_english,
            !.options_english = new_q.options_english,
            !.answer = new_q.answer,
            !.question_hindi = new_q.question_hindi,
            !.options_hindi = new_q.options_hindi,
            !.question_blueprint = IF custom_blueprint # <<>> THEN custom_blueprint ELSE @,
            !.is_selected = FALSE,
            !.is_rejected = FALSE,
            !.user_feedback = ""]

\* a key of st.session_state that no widget has created
Absent == [kind |-> "absent"]

\* a key of st.session_state holding value
Present(value) == [kind |-> "present", value |-> value]

\* st.session_state[key] = value if key in st.session_state
SetIfPresent(session, key, value) ==
  IF session[key] = Absent THEN session ELSE [session EXCEPT ![key] = Present(value)]

\* main.py:296-311
UpdateSession(session, new_q) ==
  LET s1 == SetIfPresent(session, "q_eng", new_q.question_english)
      s2 == SetIfPresent(s1, "opt_eng", new_q.options_english)
      s3 == SetIfPresent(s2, "ans", new_q.answer)
      s4 == SetIfPresent(s3, "sel", FALSE)
      s5 == SetIfPresent(s4, "rej", FALSE)
  IN SetIfPresent(s5, "fb", "")

\* the questions a review session starts from: generated in this session
\* (manager.py:81-101) or loaded with their review state (main.py:1532-1547)
ReviewedQuestions ==
  LET base == Question(7, DraftMS3, HindiOf(DraftMS3), PlanMS3, <<"History">>)
  IN {ReviewedQuestion(base, "uuid-1", st[1], st[2], fb) :
        st \in {<<FALSE, FALSE>>, <<TRUE, FALSE>>, <<FALSE, TRUE>>},
        fb \in {"", "weak distractor"}}

\* the answers of the generator's remote calls during one regeneration
RegenerationAnswers == {RemoteException, DraftMS3, DraftPlain}

RegenerationRuns == {r \in SeqsUpTo(RegenerationAnswers, 3) : Len(r) = 3}

NoRegeneration == [kind |-> "none"]

InitReview ==
  /\ PipelineIdle
  /\ dist = Idle
  /\ expansion = Idle
  /\ \E q \in ReviewedQuestions :
       review = [stage |-> "reviewing", q |-> q,
                 session |-> [sel |-> Absent, rej |-> Absent, fb |-> Absent,
                              q_eng |-> Absent, opt_eng |-> Absent, ans |-> Absent],
                 last |-> NoRegeneration]
  /\ archive = Idle
  /\ verdict = Idle

\* the value a keyed widget shows: the session's if the key exists, else the
\* default the code passes
WidgetValue(entry, default) == IF entry = Absent THEN default ELSE entry.value

\* render_question_editor (main.py:874-975): the card is drawn. Every keyed
\* widget keeps its session value or is created from the object; the object
\* takes the text, options and answer of the edit boxes (912-914) and the
\* text of the feedback box (967-968)
RenderCard ==
  /\ review.stage = "reviewing"
  /\ LET session == review.session
         q == review.q
         q_eng == WidgetValue(session.q_eng, q.question_english)
         opt_eng == WidgetValue(session.opt_eng, q.options_english)
         ans == WidgetValue(session.ans, q.answer)
         fb == WidgetValue(session.fb, q.user_feedback)
     IN review' = [review EXCEPT
                     !.session = [q_eng |-> Present(q_eng),
                                  opt_eng |-> Present(opt_eng),
                                  ans |-> Present(ans),
                                  sel |-> Present(WidgetValue(session.sel, q.is_selected)),
                                  rej |-> Present(WidgetValue(session.rej, q.is_rejected)),
                                  fb |-> Present(fb)],
                     !.q.question_english = q_eng,
                     !.q.options_english = opt_eng,
                     !.q.answer = ans,
                     !.q.user_feedback = fb]
  /\ UNCHANGED <<pipelineVars, dist, expansion, archive, verdict>>

\* a callback that sets the toggled flag and leaves the other one alone
SetSelection_NoExclusion(q, action, val) ==
  IF action = "select" THEN [q EXCEPT !.is_selected = val]
  ELSE [q EXCEPT !.is_rejected = val]

\* main.py:248-266: the object's flags after the callback has read val from
\* the toggled checkbox
SetSelection(q, action, val) ==
  IF action = "select"
  THEN [q EXCEPT !.is_selected = val, !.is_rejected = IF val THEN FALSE ELSE @]
  ELSE [q EXCEPT !.is_rejected = val, !.is_selected = IF val THEN FALSE ELSE @]

\* main.py:240-266: a status checkbox is toggled and update_selection runs
update_selection ==
  /\ review.stage = "reviewing"
  /\ review.session.sel # Absent
  /\ \E action \in {"select", "reject"} :
       IF action = "select"
       THEN LET sel_val == ~review.session.sel.value
            IN review' = [review EXCEPT
                            !.session.sel = Present(sel_val),
                            !.session.rej = IF sel_val THEN Present(FALSE) ELSE @,
                            !.q = SetSelection(@, action, sel_val),
                            !.last = [kind |-> "toggled", action |-> action,
                                      before |-> review.q]]
       ELSE LET rej_val == ~review.session.rej.value
            IN review' = [review EXCEPT
                            !.session.rej = Present(rej_val),
                            !.session.sel = IF rej_val THEN Present(FALSE) ELSE @,
                            !.q = SetSelection(@, action, rej_val),
                            !.last = [kind |-> "toggled", action |-> action,
                                      before |-> review.q]]
  /\ UNCHANGED <<pipelineVars, dist, expansion, archive, verdict>>

\* the user types into the feedback box; the rerun copies the text to the
\* object (main.py:967-968)
TypeFeedback ==
  /\ review.stage = "reviewing"
  /\ review.session.fb # Absent
  /\ \E fb \in {"", "weak distractor"} :
       /\ fb # review.session.fb.value
       /\ review' = [review EXCEPT !.session.fb = Present(fb), !.q.user_feedback = fb,
                                   !.last = NoRegeneration]
  /\ UNCHANGED <<pipelineVars, dist, expansion, archive, verdict>>

\* the user picks another answer in the select box; the rerun copies it
\* to the object (main.py:909-914)
EditAnswer ==
  /\ review.stage = "reviewing"
  /\ review.session.ans # Absent
  /\ \E new_ans \in {"A", "B"} :
       /\ new_ans # review.session.ans.value
       /\ review' = [review EXCEPT !.session.ans = Present(new_ans),
                                   !.q.answer = new_ans,
                                   !.last = NoRegeneration]
  /\ UNCHANGED <<pipelineVars, dist, expansion, archive, verdict>>

\* a callback that resets status and feedback whether or not a question came back
AfterRegeneration_ResetsOnFailure(q, new_q, custom_blueprint) ==
  IF new_q # NoneVal THEN UpdateObject(q, new_q, custom_blueprint)
  ELSE [q EXCEPT !.is_selected = FALSE, !.is_rejected = FALSE, !.user_feedback = ""]

\* main.py:277-314: q after regenerate_question has returned new_q; nothing
\* is assigned on the else branch, nor when the call raised (main.py:315)
AfterRegeneration(q, new_q, custom_blueprint) ==
  IF new_q # NoneVal THEN UpdateObject(q, new_q, custom_blueprint) ELSE q

\* main.py:268-316: the Regenerate button of a drawn card
regenerate_callback ==
  /\ review.stage = "reviewing"
  /\ review.session.sel # Absent
  /\ \E custom_blueprint \in {<<>>, PlanStd},
        resps \in RegenerationRuns,
        translation \in {"parsed", "none", "exception"} :
       LET q == review.q
           blueprint == IF custom_blueprint # <<>> THEN custom_blueprint
                        ELSE q.question_blueprint
       IN \E new_q \in {regenerate_question(blueprint, resps, translation)} :
            review' =
              [review EXCEPT
                 !.q = AfterRegeneration(q, new_q, custom_blueprint),
                 !.session = IF new_q # NoneVal THEN UpdateSession(@, new_q) ELSE @,
                 !.last = [kind |-> "regenerated", before |-> q, new_q |-> new_q]]
  /\ UNCHANGED <<pipelineVars, dist, expansion, archive, verdict>>

NextReview ==
  \/ RenderCard
  \/ update_selection
  \/ TypeFeedback
  \/ EditAnswer
  \/ regenerate_callback

SpecReview == InitReview /\ [][NextReview]_vars

(* ---------------- ArchivistAgent.save_questions (archivist.py:90) ------ *)

MaxSaves == 3

\* {chr(97+i): opt for i, opt in enumerate(options)} as json.dumps writes it:
\* the (letter, option) pairs in order
OptionLetters == <<"a", "b", "c", "d">>

OptionsJson(options) ==
  [i \in 1..Len(options) |-> <<OptionLetters[i], options[i]>>]

\* str.upper() on an answer letter
UpperPairs ==
  { <<"a", "A">>, <<"b", "B">>, <<"c", "C">>, <<"d", "D">> }

Upper(letter) ==
  IF \E p \in UpperPairs : p[1] = letter
  THEN (CHOOSE p \in UpperPairs : p[1] = letter)[2]
  ELSE letter

\* the tuple of values of archivist.py:126-131
RowOf(q, test_code) ==
  [id |-> q.db_uuid, test_code |-> test_code,
   question_number |-> q.question_number, subject |-> q.subject,
   question_blueprint |-> q.question_blueprint,
   question_hindi |-> q.question_hindi,
   options_hindi |-> OptionsJson(q.options_hindi),
   question_english |-> q.question_english,
   options_english |-> OptionsJson(q.options_english),
   answer |-> Upper(q.answer),
   quality_pass_flag |-> q.is_selected,
   quality_feedback |-> q.user_feedback]

\* a plain INSERT: the row is added whatever the table holds
Upsert_AlwaysInserts(table, row) == Append(table, row)

\* INSERT ... ON CONFLICT (id) DO UPDATE SET ...: every column but id and
\* test_code of the row with that id takes the new value; no such row, the
\* row is added (archivist.py:108-125)
Upsert(table, row) ==
  IF \E i \in 1..Len(table) : table[i].id = row.id
  THEN [i \in 1..Len(table) |->
          IF table[i].id = row.id
          THEN [row EXCEPT !.test_code = table[i].test_code]
          ELSE table[i]]
  ELSE Append(table, row)

\* str(uuid.uuid4()): the n-th identifier drawn in the session
FreshUuids == <<"uuid4-1", "uuid4-2", "uuid4-3">>

FreshUuid(n) == FreshUuids[n]

NoUuid == ""

\* archivist.py:94-131, questions 1..k of the list: the identifiers given to
\* the questions that had none, and the statements executed
RECURSIVE SaveLoop(_, _, _, _, _)
SaveLoop(questions, table, test_code, drawn, k) ==
  IF k = 0 THEN [questions |-> questions, table |-> table, drawn |-> drawn]
  ELSE LET before == SaveLoop(questions, table, test_code, drawn, k - 1)
           q == before.questions[k]
           fresh == q.db_uuid = NoUuid
           q2 == IF fresh THEN [q EXCEPT !.db_uuid = FreshUuid(before.drawn + 1)] ELSE q
       IN [questions |-> [before.questions EXCEPT ![k] = q2],
           table |-> Upsert(before.table, RowOf(q2, test_code)),
           drawn |-> IF fresh THEN before.drawn + 1 ELSE before.drawn]

\* the question lists of a session: new questions (manager.py:81-101), a
\* question without identifier, questions loaded from the table
\* (main.py:1532-1547)
ArchivedBase(number, draft, plan) ==
  [Question(number, draft, HindiOf(draft), plan, <<"History">>)
     EXCEPT !.answer = IF number = 2 THEN "b" ELSE @]

ArchiveQuestion(number, draft, plan, db_uuid, is_selected) ==
  ReviewedQuestion(ArchivedBase(number, draft, plan), db_uuid, is_selected,
                   ~is_selected, "checked")

ArchiveLists ==
  { <<ArchiveQuestion(1, DraftMS3, PlanMS3, u1, s1)>> :
      u1 \in {NoUuid, "uuid-a"}, s1 \in BOOLEAN }
  \cup
  { <<ArchiveQuestion(1, DraftMS3, PlanMS3, u1, TRUE),
      ArchiveQuestion(2, DraftPlain, PlanStd, u2, s2)>> :
      u1 \in {NoUuid, "uuid-a"}, u2 \in {NoUuid, "uuid-b"}, s2 \in BOOLEAN }

\* the table before the session: empty, or holding an older version of the
\* first question and a row of another test
ArchiveTables ==
  { <<>>,
    << RowOf(ArchiveQuestion(1, DraftPlain, PlanStd, "uuid-a", FALSE), "T-1"),
       RowOf(ArchiveQuestion(1, DraftPlain, PlanStd, "uuid-z", TRUE), "T-0") >> }

InitArchive ==
  /\ PipelineIdle
  /\ dist = Idle
  /\ expansion = Idle
  /\ review = Idle
  /\ \E questions \in ArchiveLists, table \in ArchiveTables :
       archive = [stage |-> "open", questions |-> questions, table |-> table,
                  test_code |-> "T-1", drawn |-> 0, saves |-> 0,
                  after_first |-> <<>>, last |-> "none"]
  /\ verdict = Idle

\* save_questions(questions, test_code) with the session's list: no
\* connection, the statement of question `failing` raising (rollback), or all
\* statements executed and committed
save_questions ==
  /\ archive.stage = "open"
  /\ archive.saves < MaxSaves
  /\ \E connected \in BOOLEAN, failing \in 0..Len(archive.questions) :
       IF ~connected
       THEN /\ failing = 0
            /\ archive' = [archive EXCEPT !.last = "no connection"]
       ELSE IF failing > 0
       THEN LET run == SaveLoop(archive.questions, archive.table,
                                archive.test_code, archive.drawn, failing)
            IN archive' = [archive EXCEPT !.questions = run.questions,
                                          !.drawn = run.drawn,
                                          !.last = "rolled back"]
       ELSE \E run \in {SaveLoop(archive.questions, archive.table,
                                 archive.test_code, archive.drawn,
                                 Len(archive.questions))} :
              archive' = [archive EXCEPT
                            !.questions = run.questions,
                            !.table = run.table,
                            !.drawn = run.drawn,
                            !.saves = @ + 1,
                            !.after_first = IF archive.saves = 0 THEN run.table ELSE @,
                            !.last = "committed"]
  /\ UNCHANGED <<pipelineVars, dist, expansion, review, verdict>>

\* between two saves the user changes the status of a question
\* (main.py:240-266); the saves that follow are saves of new content
ChangeStatus ==
  /\ archive.stage = "open"
  /\ archive.saves > 0
  /\ \E i \in 1..Len(archive.questions) :
       archive' = [archive EXCEPT
                     !.questions[i].is_selected = ~@,
                     !.questions[i].is_rejected = ~@,
                     !.saves = 0, !.after_first = <<>>, !.last = "edited"]
  /\ UNCHANGED <<pipelineVars, dist, expansion, review, verdict>>

NextArchive ==
  \/ save_questions
  \/ ChangeStatus

SpecArchive == InitArchive /\ [][NextArchive]_vars

(* ---------------- the validators on their own (generator.py:23-179) --- *)

PlanGeo == <<"Geographical", " ", "Sequencing">>

\* the plans the validators are run on: a text naming one pattern
ValidatorPlans == PlanTexts \cup {PlanGeo}

StemLabelled(labels, closing) ==
  << <<"Consider">> >> \o [i \in 1..Len(labels) |-> <<labels[i], ":", "x">>] \o closing

StemRoman(n, closing) ==
  << <<"Consider">> >>
    \o [i \in 1..n |-> << <<"I.", "II.", "III.", "IV.">>[i], "x" >>] \o closing

MSCloseUpper ==
  << <<"WHICH OF THE STATEMENTS GIVEN ABOVE IS/ARE CORRECT", "?">> >>

MSCloseAlt == << <<"Which of the above statements is/are not correct", "?">> >>

HMCloseAlt == << <<"How many of the above statements are correct", "?">> >>

ARCloseAlt ==
  << <<"x">>, <<"Which of the following is correct in respect of the above", "?">> >>

OptSeqLong ==
  << <<"1", "-", "2", "-", "3", "-", "4", "-", "5">>,
     <<"1", "-", "2", "-", "3">>,
     <<"Order", ":", " ", "4", " ", "-", " ", "3", "en-dash", "2", "\n", "em-dash", "1">>,
     <<"Order", " ", "5", ":", " ", "2", "-", "1", "-", "3", "-", "4">> >>

ValidatorDrafts ==
  Drafts \cup
  { Draft(StemLabelled(<<"Statement-I", "Statement-II", "Statement-III", "Statement-IV">>,
                       MSClose), OptPlain, "A"),
    Draft(StemLabelled(<<"Statement-1", "Statement-2", "Statement-3", "Statement-4">>,
                       MSCloseAlt), OptPlain, "A"),
    Draft(StemRoman(4, MSCloseUpper), OptPlain, "B"),
    Draft(StemRoman(3, HMCloseAlt), OptPlain, "B"),
    Draft(StemMS(2, MSCloseAlt), OptAR, "C"),
    Draft(StemMS(3, ARCloseAlt), OptAR, "C"),
    Draft(StemMS(4, HMClose), OptPlain, "D"),
    Draft(<< <<"Arrange">> >>, OptSeqLong, "A"),
    Draft(<< <<"Arrange">> >>, OptSeqLong, "B"),
    Draft(<< <<"Arrange">> >>, OptSeqLong, "C"),
    Draft(<< <<"Arrange">> >>, OptSeqLong, "D") }

InitVerdict ==
  /\ PipelineIdle
  /\ dist = Idle
  /\ expansion = Idle
  /\ review = Idle
  /\ archive = Idle
  /\ \E blueprint \in ValidatorPlans, draft \in ValidatorDrafts :
       verdict = [stage |-> "drafted", blueprint |-> blueprint, question_obj |-> draft]

\* one validator is called on the draft and returns (is_valid, error_message)
Checked(check, result) ==
  /\ verdict.stage = "drafted"
  /\ verdict' = [stage |-> "checked", check |-> check,
                 blueprint |-> verdict.blueprint,
                 question_obj |-> verdict.question_obj,
                 valid |-> result.valid, error |-> result.error]
  /\ UNCHANGED <<pipelineVars, dist, expansion, review, archive>>

CheckSequenceRandomization ==
  Checked("sequence_randomization",
          _validate_sequence_randomization(verdict.question_obj, verdict.blueprint))

CheckAssertionReasonFormat ==
  Checked("assertion_reason_format",
          _validate_assertion_reason_format(verdict.question_obj, verdict.blueprint))

CheckClosingQuestion ==
  Checked("closing_question",
          _validate_closing_question(verdict.question_obj, verdict.blueprint))

CheckStatementCompleteness ==
  Checked("statement_completeness",
          _validate_statement_completeness(verdict.question_obj, verdict.blueprint))

NextVerdict ==
  \/ CheckSequenceRandomization
  \/ CheckAssertionReasonFormat
  \/ CheckClosingQuestion
  \/ CheckStatementCompleteness

SpecVerdict == InitVerdict /\ [][NextVerdict]_vars

(* ------- a plan handed to the generator (manager.py:261-273, 65) ------- *)

\* research_context_text as the researcher may return it: text of web pages
\* on the topic; <<>> when no source was found
AnnotationTexts ==
  { <<>>,
    <<"facts">>,
    <<"the", " ", "Chronological", " ", "order", " ", "of", " ", "the", " ", "acts">>,
    <<"How", " ", "many", " ", "tiger", " ", "reserves">>,
    <<"the", " ", "Assertion", " ", "of", " ", "sovereignty">>,
    <<"rivers", " ", "from", " ", "north", " ", "to", " ", "south">>,
    <<"a", " ", "Multiple", "-", "Statement", "-", "4", " ", "item">> }

\* the checks of generate_question that reject some draft for the text
RejectingChecks(blueprint) ==
  {CheckOrder[i] : i \in {j \in 1..Len(CheckOrder) :
     \E d \in ValidatorDrafts : ~CheckResult(CheckOrder[j], d, blueprint).valid}}

InitAnnotation ==
  /\ PipelineIdle
  /\ dist = Idle
  /\ expansion = Idle
  /\ review = Idle
  /\ archive = Idle
  /\ \E plan \in ValidatorPlans, research_context_text \in AnnotationTexts :
       verdict = [stage |-> "planned", plan |-> plan,
                  research_context_text |-> research_context_text]

\* manager.py:261-273 and 65, generator.py:190-199: the plan is annotated if
\* there is research text, and generate_question is entered with the result
GeneratorReceivesPlan ==
  /\ verdict.stage = "planned"
  /\ LET plan_text == IF verdict.research_context_text # <<>>
                      THEN enriched_plan(verdict.plan, verdict.research_context_text)
                      ELSE verdict.plan
     IN verdict' = [stage |-> "received", plan |-> verdict.plan,
                    research_context_text |-> verdict.research_context_text,
                    blueprint |-> plan_text,
                    max_retries |-> max_retries(plan_text),
                    checks |-> RejectingChecks(plan_text)]
  /\ UNCHANGED <<pipelineVars, dist, expansion, review, archive>>

NextAnnotation == GeneratorReceivesPlan

SpecAnnotation == InitAnnotation /\ [][NextAnnotation]_vars

(* ------------------------------ properties ----------------------------- *)

\* the plans the spec calls critical: 'multiple-statement-4', 'complex 3-stmt'
\* or '3-stmt assertion' occurs in the plan, whatever the case of its letters
CriticalPlan(plan) ==
  \/ Contains(Lower(plan), <<"multiple", "-", "statement", "-", "4">>)
  \/ Contains(Lower(plan), <<"complex", " ", "3-stmt">>)
  \/ Contains(Lower(plan), <<"3-stmt", " ", "assertion">>)

Dropped == {t \in Tasks : out[t] = NoneVal}

InFlight == {t \in Tasks : pc[t] \in {"gen_call", "trans_call"}}

BatchReturned == phase = "done" /\ plans # <<>>

\* C1: a batch of N plans of which K are dropped returns exactly N-K
\* questions, in strictly increasing order of sequence number, so that no two
\* questions share a number.
C1_CollatedCountAndOrder ==
  BatchReturned =>
    LET qs == response.questions IN
    /\ Len(qs) = Len(plans) - Cardinality(Dropped)
    /\ \A i \in 1..Len(qs), j \in 1..Len(qs) :
         i < j => qs[i].question_number < qs[j].question_number

C1_Witness ==
  /\ BatchReturned
  /\ Len(plans) = 3
  /\ Dropped = {2}
  /\ Len(response.questions) = 2

C3_CriticalExhaustionReturnsNone ==
  ( /\ phase = "returned"
    /\ CriticalPlan(plans[1])
    /\ genCalls[1] = 5
    /\ lastResp.kind = "draft"
    /\ \/ ~_validate_statement_completeness(lastResp, plans[1]).valid
       \/ ~_validate_closing_question(lastResp, plans[1]).valid )
  => que[1] = NoneVal

\* C4: for a non-critical plan, when each of the 3 attempts produced a draft
\* that fails validation, generate_question returns the draft of the last
\* attempt, not None.
C4_NonCriticalReturnsLastDraft ==
  (phase = "returned" /\ ~CriticalPlan(plans[1]) /\ valFailures = 3)
  => (que[1] = lastResp /\ que[1].kind = "draft")

C4_Witness ==
  /\ phase = "returned"
  /\ plans[1] = PlanChrono
  /\ valFailures = 3
  /\ que[1] = DraftSeqDesc
  /\ ~_validate_sequence_randomization(que[1], plans[1]).valid

\* C5: generate_question returns the draft of the first attempt that passes
\* every check and calls the remote model no more: while the call runs every
\* answered attempt has failed, and when attempt k passes the call returns its
\* draft having made exactly k remote calls.
C5_FirstPassingAttemptReturned ==
  /\ phase = "generating" =>
       (valFailures + excFailures = attempt[1] /\ genCalls[1] = attempt[1] + 1)
  /\ (phase = "returned" /\ lastResp.kind = "draft"
        /\ ~FailsValidation(lastResp, plans[1]))
     => ( /\ que[1] = lastResp
          /\ genCalls[1] = valFailures + excFailures + 1 )

C5_Witness ==
  /\ phase = "returned"
  /\ plans[1] = PlanMS4
  /\ valFailures = 2
  /\ excFailures = 0
  /\ genCalls[1] = 3
  /\ que[1] = DraftMS4

\* C6: one generate_question call makes at most 5 remote calls for a critical
\* plan and at most 3 for any other plan, whatever the attempts answer.
C6_AttemptBudget ==
  phase \in {"generating", "returned"} =>
    genCalls[1] <= (IF CriticalPlan(plans[1]) THEN 5 ELSE 3)

C6_Witness ==
  /\ phase = "returned"
  /\ plans[1] = PlanMS4Upper
  /\ genCalls[1] = 5
  /\ excFailures = 3
  /\ valFailures = 2

\* C7: a dropped plan aborts no other plan: when the batch returns, every plan
\* of every chunk has run to its end, and every plan that was not dropped is in
\* the output.
C7_DropsDoNotAbortOthers ==
  BatchReturned =>
    \A t \in Tasks :
      /\ pc[t] = "done"
      /\ out[t] # NoneVal =>
           \E i \in 1..Len(response.questions) : response.questions[i] = out[t]

C7_Witness ==
  /\ BatchReturned
  /\ Len(plans) = 3
  /\ Dropped = {1}
  /\ Len(response.questions) = 2
  /\ que_hindi[1] = NoneVal

\* C8: a question is emitted only if its generation and its translation both
\* succeeded; the translator is called at most once per plan, only after the
\* generator returned a question, and a failed translation drops the plan.
C8_EmittedOnlyIfTranslated ==
  \A t \in Tasks :
    /\ transCalls[t] <= 1
    /\ pc[t] \in {"idle", "gen_call"} => transCalls[t] = 0
    /\ pc[t] = "trans_call" => (transCalls[t] = 1 /\ que[t].kind = "draft")
    /\ out[t] # NoneVal =>
         /\ transCalls[t] = 1
         /\ que_hindi[t] # NoneVal
         /\ out[t].question_hindi = que_hindi[t].question
         /\ que_hindi[t].question = Hindi(out[t].question_english)

C8_Witness ==
  \E t \in Tasks, u \in Tasks :
    /\ pc[t] = "done" /\ transCalls[t] = 1 /\ que_hindi[t] = NoneVal /\ out[t] = NoneVal
    /\ out[u] # NoneVal

\* C9: plans run in consecutive chunks of chunk_jump: no plan of a later chunk
\* has started while a plan of an earlier chunk is unfinished, so at most
\* chunk_jump tasks, and remote calls, are in flight at any moment.
C9_ChunksRunOneAtATime ==
  /\ Cardinality(InFlight) <= chunk_jump
  /\ \A t \in Tasks, u \in Tasks :
       (pc[t] # "idle" /\ (u - 1) \div chunk_jump < (t - 1) \div chunk_jump)
         => pc[u] = "done"

C9_Witness ==
  /\ Len(plans) > chunk_jump
  /\ pc[chunk_jump + 1] = "trans_call"
  /\ 1 \in Dropped
  /\ Len(final_data) = chunk_jump

\* C10: a run makes exactly one planner call; when that call raises or
\* returns no plans the run returns an empty paper and calls neither the
\* generator nor the translator.
C10_PlanningFailureIsFatal ==
  /\ phase \in {"start", "gather", "done"} =>
       plannerCalls = (IF phase = "start" THEN 0 ELSE 1)
  /\ ( \/ plannerAnswer \in {"exception", "None"}
       \/ (plannerAnswer = "QuestionPlan" /\ plans = <<>>) )
     => ( /\ phase = "done"
          /\ response = [kind |-> "TestPaper", questions |-> <<>>]
          /\ pc = <<>>
          /\ genCalls = <<>>
          /\ transCalls = <<>> )

C10_Witness ==
  /\ phase = "done"
  /\ plannerAnswer = "exception"
  /\ plannerCalls = 1
  /\ response.questions = <<>>


\* how often option occurs in a result list
CountOf(result, option) == Cardinality({i \in 1..Len(result) : result[i] = option})

RECURSIVE CountsUpTo(_, _)
CountsUpTo(config_list, n) ==
  IF n = 0 THEN 0 ELSE CountsUpTo(config_list, n - 1) + config_list[n].count

\* the slots of the result that belong to row k of the configuration
RowSlots(config_list, k) ==
  (CountsUpTo(config_list, k - 1) + 1)..CountsUpTo(config_list, k)

\* C12: auto_distribute_empty_fields returns a flat list with as many entries
\* as the rows' counts sum to (a row of count 0 contributes none); every entry
\* has count 1 and a non-empty pattern, cognitive level and difficulty; a
\* field that is set and not flagged for randomization appears verbatim in
\* all entries of its row.
C12_ExpansionIsFlatAndResolved ==
  expansion.stage = "returned" =>
    LET cl == expansion.config_list
        res == expansion.result
    IN /\ Len(res) = CountsUpTo(cl, Len(cl))
       /\ \A i \in 1..Len(res) :
            /\ res[i].count = 1
            /\ res[i].pattern # "" /\ res[i].cognitive # "" /\ res[i].difficulty # ""
       /\ \A k \in 1..Len(cl) : \A i \in RowSlots(cl, k) :
            /\ ~cl[k]._randomize_topic => res[i].topic = cl[k].topic
            /\ ~cl[k]._randomize_pattern => res[i].pattern = cl[k].pattern
            /\ ~cl[k]._randomize_cognitive => res[i].cognitive = cl[k].cognitive
            /\ ~cl[k]._randomize_difficulty => res[i].difficulty = cl[k].difficulty

C12_Witness ==
  /\ expansion.stage = "returned"
  /\ Len(expansion.config_list) = 2
  /\ expansion.config_list[1].count = 0
  /\ expansion.config_list[2].count = 3
  /\ expansion.config_list[2].topic = "Indian geography"
  /\ Len(expansion.result) = 3
  /\ \E i \in 1..3 : expansion.result[i].pattern = "Geographical Sequencing"


\* C13: a successful regeneration replaces the question's content in full
\* (English stem and options, Hindi stem and options, answer), leaves its
\* stable id and its sequence number as they were, and makes it pending again:
\* neither selected nor rejected, with empty feedback.
C13_RegenerationReplacesContent ==
  (review.stage = "reviewing" /\ review.last.kind = "regenerated"
     /\ review.last.new_q # NoneVal) =>
    LET q == review.q
        new_q == review.last.new_q
        before == review.last.before
    IN /\ q.question_english = new_q.question_english
       /\ q.options_english = new_q.options_english
       /\ q.question_hindi = new_q.question_hindi
       /\ q.options_hindi = new_q.options_hindi
       /\ q.answer = new_q.answer
       /\ q.db_uuid = before.db_uuid
       /\ q.id = before.id
       /\ q.question_number = before.question_number
       /\ ~q.is_selected /\ ~q.is_rejected /\ q.user_feedback = ""

C13_Witness ==
  /\ review.stage = "reviewing"
  /\ review.last.kind = "regenerated"
  /\ review.last.new_q # NoneVal
  /\ review.last.before.is_rejected
  /\ review.last.before.user_feedback = "weak distractor"
  /\ review.last.before.question_english # review.q.question_english
  /\ review.q.question_number = 7


\* C14: the plan stored in an emitted question is the plan as the planner
\* produced it: the plan handed to the generator is that plan or that plan
\* with the reference material attached, stripping returns the plan, and no
\* stored plan carries the reference-material marker.
C14_StoredPlanIsPlannerPlan ==
  \A t \in Tasks :
    out[t] # NoneVal =>
      LET stored == out[t].question_blueprint
      IN /\ stored \in BatchPlanTexts
         /\ plans[t] \in {stored} \cup {enriched_plan(stored, r) : r \in ResearchTexts}
         /\ ~Contains(stored, <<"--- REFERENCE MATERIAL">>)
         /\ BatchReturned =>
              \E i \in 1..Len(response.questions) :
                /\ response.questions[i].question_number = out[t].question_number
                /\ response.questions[i].question_blueprint = stored

C14_Witness ==
  /\ BatchReturned
  /\ Len(response.questions) = 2
  /\ Contains(plans[1], <<"--- REFERENCE MATERIAL">>)
  /\ Contains(plans[1], <<"--- END REFERENCE MATERIAL ---">>)
  /\ response.questions[1].question_blueprint # plans[1]
  /\ response.questions[2].question_blueprint = PlanStd


\* C15: save_questions is idempotent and keyed by the stable id: after two or
\* more committed saves of the same questions under the same batch key the
\* table is what the first of them left, and the table holds exactly one row
\* for the stable id of every saved question, carrying that question's values.
C15_UpsertIsIdempotent ==
  archive.stage = "open" =>
    LET table == archive.table IN
    /\ \A i \in 1..Len(table), j \in 1..Len(table) :
         table[i].id = table[j].id => i = j
    /\ archive.saves >= 1 =>
         \A k \in 1..Len(archive.questions) :
           LET q == archive.questions[k]
               rows == {i \in 1..Len(table) : table[i].id = q.db_uuid}
           IN /\ q.db_uuid # NoUuid
              /\ Cardinality(rows) = 1
              /\ \A i \in rows :
                   [table[i] EXCEPT !.test_code = archive.test_code]
                     = RowOf(q, archive.test_code)
    /\ archive.saves >= 2 => table = archive.after_first

C15_Witness ==
  /\ archive.stage = "open"
  /\ archive.saves = 2
  /\ archive.drawn = 1
  /\ archive.last = "committed"
  /\ Len(archive.questions) = 2
  /\ Len(archive.table) = 4
  /\ \E i \in 1..4 : archive.table[i].answer = "B"


IsNumeral(t) == t \in Numerals

\* C16: for a plan that indicates a chronological or geographical ordering,
\* the sequence-randomization check fails exactly when the first four-numeral
\* dash-separated sequence of the correct option reads 1, 2, 3, 4 or
\* 4, 3, 2, 1, whatever dashes and whitespace separate the numerals; any other
\* sequence, or no sequence, passes.  Other plans always pass.
C16_ForbiddenSequenceFails ==
  (verdict.stage = "checked" /\ verdict.check = "sequence_randomization") =>
    LET draft == verdict.question_obj
        correct_option == draft.options[AnswerIndex(draft.answer)]
        numerals == SelectSeq(FindSequence(correct_option), IsNumeral)
    IN IF ContainsAny(Lower(verdict.blueprint), SequencingKeywords)
       THEN ~verdict.valid <=>
              numerals \in {<<"1", "2", "3", "4">>, <<"4", "3", "2", "1">>}
       ELSE verdict.valid

C16_Witness ==
  /\ verdict.stage = "checked"
  /\ verdict.check = "sequence_randomization"
  /\ verdict.blueprint = PlanGeo
  /\ verdict.question_obj.options = OptSeqLong
  /\ verdict.question_obj.answer = "C"
  /\ ~verdict.valid


\* the index a 'Statement-<numeral>' label names
StatementIndex ==
  [t \in DOMAIN StatementLabel |->
     IF t = "statement-iv" THEN 4 ELSE StatementLabel[t]]

\* the number of statements a plan requires, 0 if it names none
RequiredStatements(blueprint) ==
  LET blueprint_lower == Lower(blueprint) IN
  IF ExpectedCount(blueprint_lower) > 0 THEN ExpectedCount(blueprint_lower)
  ELSE IF Contains(blueprint_lower, <<"3-stmt", " ", "assertion">>)
          \/ Contains(blueprint_lower, <<"complex", " ", "3-stmt">>)
  THEN 3
  ELSE 0

\* the maximum of the three counts: highest 'n.' at a line start, highest
\* Roman numeral at a line start, highest index in a Statement label
HighestStatement(question_text) ==
  LET flat == Flatten(question_text) IN
  Max2(_count_statements(question_text),
       SetMax({StatementIndex[LowerTok(flat[i])] :
                 i \in {j \in 1..Len(flat) : LowerTok(flat[j]) \in DOMAIN StatementIndex}}))

\* C17: for a plan that names a required number of statements R, the
\* statement-count check fails exactly when the highest statement found in the
\* stem (numbered line, Roman-numbered line or Statement label) is below R.
C17_FailsExactlyBelowRequired ==
  (verdict.stage = "checked" /\ verdict.check = "statement_completeness"
     /\ RequiredStatements(verdict.blueprint) > 0) =>
    (~verdict.valid <=>
       HighestStatement(verdict.question_obj.question)
         < RequiredStatements(verdict.blueprint))


\* the closing-question families a plan requires, each with its accepted
\* phrasings in lower case
RequiredFamilies(blueprint) ==
  LET blueprint_lower == Lower(blueprint) IN
  (IF Contains(blueprint_lower, <<"multiple", "-", "statement">>)
   THEN { { "which of the statements given above is/are correct",
            "which of the statements given above is/are not correct",
            "which of the statements given above are incorrect",
            "which of the above statements is/are correct",
            "which of the above statements is/are not correct" } }
   ELSE {})
  \cup
  (IF Contains(blueprint_lower, <<"how", " ", "many">>)
   THEN { { "how many of the statements given above are correct",
            "how many of the above statements are correct",
            "how many of the statements given above is/are correct" } }
   ELSE {})
  \cup
  (IF \E kw \in {"assertion", "3-stmt", "2-stmt"} : Contains(blueprint_lower, <<kw>>)
   THEN { { "which one of the following is correct in respect of the above statements",
            "which of the following is correct in respect of the above" } }
   ELSE {})

\* the phrasings that occur in a stem, whatever their case
PhrasesIn(question_text) ==
  {LowerTok(Flatten(question_text)[i]) : i \in 1..Len(Flatten(question_text))}

\* C18: for a plan whose pattern requires a closing-question family
\* (multi-statement, how-many, assertion-reason) the closing-question check
\* fails when none of that family's accepted phrasings occurs in the stem,
\* case-insensitively, and passes once one of them is present; a plan that
\* requires no family passes.
C18_ClosingQuestionRequired ==
  (verdict.stage = "checked" /\ verdict.check = "closing_question") =>
    LET present == PhrasesIn(verdict.question_obj.question) IN
    verdict.valid <=>
      \A family \in RequiredFamilies(verdict.blueprint) : family \cap present # {}

C18_Witness ==
  /\ verdict.stage = "checked"
  /\ verdict.check = "closing_question"
  /\ verdict.blueprint = PlanMS3
  /\ verdict.question_obj.question = StemRoman(4, MSCloseUpper)
  /\ verdict.valid


\* the entry a subject reserves in the pattern table and its share in percent
ReservedEntry(subject_name) ==
  IF LowerTok(subject_name) = "history"
  THEN [key |-> "Chronological Ordering", share |-> 20]
  ELSE IF LowerTok(subject_name) = "geography"
  THEN [key |-> "Geographical Sequencing", share |-> 15]
  ELSE [key |-> "Chronological Ordering", share |-> 5]

Abs(n) == IF n < 0 THEN 0 - n ELSE n

RECURSIVE SumOfOthers(_, _)
SumOfOthers(table, key) ==
  IF table = <<>> THEN 0
  ELSE (IF Head(table)[1] = key THEN 0 ELSE Head(table)[2]) + SumOfOthers(Tail(table), key)

\* C19: in every weight table derived from the base pattern table for a
\* subject, the reserved entry is exactly its share (20 for History's
\* chronological ordering, 15 for Geography's geographical sequencing, 5 for
\* the chronological ordering of any other subject); every other entry is the
\* base weight times (100 - share)/100 rounded to one decimal, and the other
\* entries sum to 100 - share within 0.1 per entry.  Weights are in tenths of
\* a percent.
C19_SubjectTableKeepsShare ==
  (dist.stage = "returned" /\ dist.call.upsc_dist = UPSC_PATTERN_DIST) =>
    LET table == dist.working_dist
        base == UPSC_PATTERN_DIST
        reserved == ReservedEntry(dist.call.subject)
        others == {i \in 1..Len(table) : table[i][1] # reserved.key}
    IN /\ Len(table) = Len(base)
       /\ \A i \in 1..Len(table) :
            /\ table[i][1] = base[i][1]
            /\ table[i][1] = reserved.key => table[i][2] = 10 * reserved.share
            /\ i \in others =>
                 Abs(10 * table[i][2] - base[i][2] * (100 - reserved.share)) <= 5
       /\ Abs(SumOfOthers(table, reserved.key) - 10 * (100 - reserved.share))
            <= Cardinality(others)

C19_Witness ==
  /\ dist.stage = "returned"
  /\ dist.call.upsc_dist = UPSC_PATTERN_DIST
  /\ dist.call.subject = "Geography"
  /\ \E i \in 1..Len(dist.working_dist) :
       dist.working_dist[i] = <<"Geographical Sequencing", 150>>
  /\ \E i \in 1..Len(dist.working_dist) :
       dist.working_dist[i] = <<"Multiple-Statement-2 (Correct)", 60>>
  /\ SumOfOthers(dist.working_dist, "Geographical Sequencing") = 850


\* C20: a remote-call exception is treated like a validation failure: at
\* every attempt, an answer that raises and an answer that is a draft failing
\* validation both lead to a retry or both end the call, and when they end it
\* the caller gets a question in both cases or in neither.
C20_ExceptionLikeValidationFailure ==
  (phase = "generating" /\ pc[1] = "gen_call") =>
    \A draft \in Drafts :
      FailsValidation(draft, plans[1]) =>
        LET raised == generate_question(plans[1], attempt[1], question_obj[1],
                                        RemoteException)
            failed == generate_question(plans[1], attempt[1], question_obj[1], draft)
        IN /\ raised.returned = failed.returned
           /\ raised.returned => (raised.value = NoneVal <=> failed.value = NoneVal)


\* the iteration of the retry loop that received lastResp
LastIteration == IF phase = "returned" THEN attempt[1] ELSE attempt[1] - 1

\* C21: on every attempt the checks are called in the fixed order sequence
\* randomization, paired-statement format, statement count, closing question,
\* and no check is called after the first one that fails.
C21_FirstFailureEndsAttempt ==
  (phase \in {"generating", "returned"} /\ lastResp.kind = "draft") =>
    LET called == ChecksEvaluated(plans[1], LastIteration, lastResp)
    IN /\ called = SubSeq(CheckOrder, 1, Len(called))
       /\ \A i \in 1..(Len(called) - 1) :
            CheckResult(called[i], lastResp, plans[1]).valid


\* C22: the backoff wait of the generator is a suspension point: while a task
\* waits out its backoff, every other task of the chunk whose remote call is
\* outstanding can be resumed.
C22_BackoffLetsOthersRun ==
  \A t \in Sleeping :
    \A u \in Tasks \ {t} :
      pc[u] \in {"gen_call", "trans_call"} =>
        ENABLED (GeneratorRespondsThenSleeps(u) \/ ResumeTranslator(u))


\* C23: the output of a batch does not depend on the order in which the
\* tasks complete: whenever a task has produced a question, that question
\* carries start_number + the plan's original index, and the returned list
\* holds the questions of the surviving plans in the order of their plans.
C23_OutputOrderIgnoresCompletion ==
  /\ \A t \in Tasks :
       out[t] # NoneVal => out[t].question_number = start_number + (t - 1)
  /\ BatchReturned =>
       LET qs == response.questions
           kept == Tasks \ Dropped
           rank(t) == Cardinality({u \in kept : u <= t})
       IN /\ Len(qs) = Cardinality(kept)
          /\ \A t \in kept : qs[rank(t)] = out[t]

\* a later plan's task has completed while an earlier plan of the same chunk
\* is still retrying
C23_Witness ==
  /\ phase = "gather"
  /\ Len(plans) = 3
  /\ chunk = 0
  /\ pc[2] = "done"
  /\ out[2] # NoneVal
  /\ out[2].question_number = start_number + 1
  /\ pc[1] = "gen_call"
  /\ attempt[1] = 2


\* C24: when no attempt yields a draft (every remote call raises or returns
\* nothing parseable), generate_question returns None, for critical and other
\* plans alike, and only after it has made every call of its budget.
C24_NoDraftGivesNone ==
  (phase = "returned" /\ excFailures = genCalls[1]) =>
    /\ que[1] = NoneVal
    /\ genCalls[1] = (IF CriticalPlan(plans[1]) THEN 5 ELSE 3)

C24_Witness ==
  /\ phase = "returned"
  /\ plans[1] = PlanAR3
  /\ excFailures = 5
  /\ valFailures = 0
  /\ lastResp = NoneVal
  /\ que[1] = NoneVal


\* the pattern a subject's table reserves a share for; "" where there is none
MandatoryPattern(subject_name) ==
  CASE subject_name = "History" -> "Chronological Ordering"
    [] subject_name = "Geography" -> "Geographical Sequencing"
    [] OTHER -> ""

\* C25: subject-conditional pattern allocation stays attached to its subject:
\* in a row whose pattern is randomized (its topic fixed, or its topic
\* randomized too and the patterns allocated per subject), the entries whose
\* topic is History or Geography carry that subject's mandatory pattern exactly
\* as often as that subject's table allots it to their number.
C25_PatternsStayWithSubject ==
  expansion.stage = "returned" =>
    LET cl == expansion.config_list
        res == expansion.result
    IN \A k \in 1..Len(cl) :
         (/\ cl[k]._randomize_pattern
          /\ (cl[k]._randomize_topic => cl[k].count >= SmallTestLimit)) =>
           \A s \in {"History", "Geography"} :
             LET subjectAt(i) == IF cl[k]._randomize_topic THEN res[i].topic
                                 ELSE SubjectOfTopic(cl[k].topic)
                 mine == {i \in RowSlots(cl, k) : subjectAt(i) = s}
                 got == Cardinality({i \in mine : res[i].pattern = MandatoryPattern(s)})
             IN mine # {} =>
                  \A r \in get_distribution(Cardinality(mine), pattern_types,
                                            UPSC_PATTERN_DIST, s) :
                    got = CountOf(r, MandatoryPattern(s))


\* the plan text holds one of the words or phrases that switch the check on
\* (case-insensitive substring match)
Activated(check, blueprint) ==
  LET text == Lower(blueprint)
      has(kw) == Contains(text, kw)
  IN CASE check = "sequence_randomization" ->
            \/ has(<<"chronological">>) \/ has(<<"geographical">>) \/ has(<<"sequencing">>)
            \/ has(<<"correct", " ", "sequence">>)
            \/ has(<<"north", " ", "to", " ", "south">>)
            \/ has(<<"east", " ", "to", " ", "west">>)
            \/ has(<<"earliest", " ", "first">>)
       [] check = "assertion_reason_format" ->
            \/ has(<<"assertion">>) \/ has(<<"statement", "-", "i">>)
       [] check = "statement_completeness" ->
            \/ (has(<<"multiple">>) /\ has(<<"statement">>))
            \/ has(<<"3-stmt", " ", "assertion">>) \/ has(<<"complex", " ", "3-stmt">>)
       [] check = "closing_question" ->
            \/ has(<<"multiple", "-", "statement">>) \/ has(<<"how", " ", "many">>)
            \/ has(<<"assertion">>) \/ has(<<"3-stmt">>) \/ has(<<"2-stmt">>)

\* C26: a check whose activating keywords do not occur in the plan text
\* returns pass with an empty reason, whatever the draft; and a draft for a
\* plan that carries none of the keywords of any check is returned by the
\* attempt that produced it, the first one included.
C26_InactiveCheckPasses ==
  verdict.stage = "checked" =>
    /\ ~Activated(verdict.check, verdict.blueprint) =>
         (verdict.valid /\ verdict.error = "")
    /\ (\A check \in {CheckOrder[i] : i \in 1..Len(CheckOrder)} :
          ~Activated(check, verdict.blueprint)) =>
         LET r == generate_question(verdict.blueprint, 0, Unbound, verdict.question_obj)
         IN r.returned /\ r.attempt = 0 /\ r.value = verdict.question_obj

C26_Witness ==
  /\ verdict.stage = "checked"
  /\ verdict.check = "assertion_reason_format"
  /\ verdict.blueprint = PlanStd
  /\ verdict.question_obj.kind = "draft"
  /\ ~ContainsAny(Lower(verdict.question_obj.options[1]), ARVocabulary)
  /\ verdict.valid
  /\ verdict.error = ""


\* C27: provided every remote call eventually returns or raises, every batch
\* run terminates: every plan's task ends (as a question or as a drop, its
\* generator having returned) and _collate_questions returns after the last
\* chunk.
C27_BatchTerminates ==
  <>(/\ phase = "done"
     /\ response.kind = "TestPaper"
     /\ \A t \in Tasks : pc[t] = "done" /\ genCalls[t] = 0)

C27_Witness ==
  /\ phase = "done"
  /\ Len(plans) = 3
  /\ chunk = chunk_jump
  /\ Dropped = {1, 3}
  /\ Len(response.questions) = 1
  /\ \A t \in Tasks : pc[t] = "done"


\* C28: no question is ever both selected and rejected: whatever review state
\* it was created or loaded with, and whatever select/reject toggles, edits
\* and regenerations follow, at most one of its two review flags is set.
C28_NeverSelectedAndRejected ==
  review.stage = "reviewing" => ~(review.q.is_selected /\ review.q.is_rejected)

C28_Witness ==
  /\ review.stage = "reviewing"
  /\ review.last.kind = "toggled"
  /\ review.last.action = "select"
  /\ review.last.before.is_rejected
  /\ review.q.is_selected
  /\ ~review.q.is_rejected


\* C29: a failed regeneration (the generator or the translator yields
\* nothing, or an exception is raised) leaves the question entirely unchanged:
\* content, translation, answer, plan, review flags, feedback, stable id and
\* sequence number; the card drawn afterwards shows it as it was.
C29_FailedRegenerationChangesNothing ==
  (review.stage = "reviewing" /\ review.last.kind = "regenerated"
     /\ review.last.new_q = NoneVal) =>
    review.q = review.last.before

C29_Witness ==
  /\ review.stage = "reviewing"
  /\ review.last.kind = "regenerated"
  /\ review.last.new_q = NoneVal
  /\ review.last.before.is_rejected
  /\ review.last.before.user_feedback = "weak distractor"
  /\ review.q = review.last.before


\* C30: annotating a plan with reference material does not change how the
\* generator treats it: the checks that are active and the attempt budget for
\* the annotated plan are those of the planner's plan text alone.
C30_AnnotationKeepsTreatment ==
  verdict.stage = "received" =>
    /\ verdict.max_retries = max_retries(verdict.plan)
    /\ verdict.checks = RejectingChecks(verdict.plan)

====
